---- MODULE Spec2Model ----
(***************************************************************************)
(* Model of the MCP client fabric of Bamboo-bot:                           *)
(*   crates/agent-mcp/src/manager.rs          McpServerManager             *)
(*   crates/agent-mcp/src/protocol/client.rs  McpProtocolClient            *)
(* Every action is one stretch of code between two suspension points       *)
(* (.await) of the task that runs it.                                      *)
(***************************************************************************)
EXTENDS Integers, Sequences, FiniteSets, TLC

(***************************************************************************)
(* Bounds of the model.                                                    *)
(***************************************************************************)
\* number of tasks that call the manager's public API concurrently
NumCallers == 2
\* number of ServerRuntime objects created over a behaviour
MaxRuntimes == 2
\* number of start_server calls of the single-caller behaviours
MainStarts == 1
\* capacity of the bounded event channel handed to with_event_channel
EventCap == 1
\* reconnect.max_attempts of the bounded configurations
MaxAttempts == 2
\* attempts explored of a run with max_attempts = 0 (unlimited)
AttemptCap == 3
\* number of send_request calls made on one protocol client
MaxRequests == 2
\* messages of the server not yet read by the client's reader task
MaxInbound == 2
\* failed attempts followed in one backoff run
MaxSleeps == 7
\* transports created by start_server and reconnect_server over a behaviour
MaxTransports == 3
\* pings and tool calls followed on one transport
MaxTraffic == 2
\* bytes a server writes to its stdout over a behaviour
MaxBytes == 4
\* chat requests received for the session over a behaviour
MaxChatRequests == 3
\* cap_tool_result calls made on one ToolOutputManager
MaxCapCalls == 3
\* seconds that pass over a behaviour
MaxClock == 2

Servers == {"s1"}
Callers == 1..NumCallers
RuntimeIds == 1..MaxRuntimes
Transports == 1..MaxTransports
\* the tasks of the HTTP server that run the chat handler
ChatTasks == {1, 2}
\* the request of a task that runs no handler
NoRequest == [message |-> 0, system_prompt |-> "", model |-> ""]
ToolSets == {{"a"}, {"a", "b"}}

None == <<"none", 0>>
CallerProc(c) == <<"caller", c>>
HealthProc(r) == <<"health", r>>
Procs == {CallerProc(c) : c \in Callers} \cup {HealthProc(r) : r \in RuntimeIds}

\* ReconnectConfig values a caller passes to start_server
ReconnectConfigs ==
    {[enabled |-> FALSE, max_attempts |-> MaxAttempts,
      initial_backoff_ms |-> 1, max_backoff_ms |-> 4]}
    \cup
    {[enabled |-> TRUE, max_attempts |-> m,
      initial_backoff_ms |-> b[1], max_backoff_ms |-> b[2]] :
        m \in {0, MaxAttempts}, b \in {<<1, 4>>}}

VARIABLES
    config,          \* McpServerConfig.reconnect used by every start_server
    runtimes,        \* McpServerManager.runtimes: server id -> runtime (0 = absent)
    mapRefs,         \* DashMap Ref guards held on an entry of runtimes
    nextRt,          \* number of ServerRuntime objects created
    rtServer,        \* ServerRuntime.config.id
    shutdown,        \* ServerRuntime.shutdown
    reconnecting,    \* ServerRuntime.reconnecting
    status,          \* ServerRuntime.info.status
    last_error,      \* ServerRuntime.info.last_error
    tool_count,      \* ServerRuntime.info.tool_count
    rtTools,         \* ServerRuntime.tools
    clientConn,      \* ServerRuntime.client is connected
    clientR,         \* readers of the RwLock around ServerRuntime.client
    clientW,         \* writer of the RwLock around ServerRuntime.client
    infoW,           \* writer of the RwLock around ServerRuntime.info
    index,           \* ToolIndex: set of <<server_id, original_name>>
    evQueued,        \* events waiting in the bounded event channel
    cpc,             \* position of each API caller
    crt,             \* runtime the caller works on
    ctools,          \* tools listed by the caller's RPC
    cres,            \* what the caller's last call returned (in call_tool: the RPC result)
    hpc,             \* position of each runtime's health task
    attempt,         \* attempt_reconnection: attempt
    current_backoff, \* attempt_reconnection: current_backoff
    newTools,        \* reconnect_server: tools
    stopDone,        \* history: stop_server of this runtime has returned Ok
    lateEv,          \* history: first event sent for a runtime after stopDone
    stoppedSince,    \* history: stop_server(S) returned and no start_server(S) since
    runLog,          \* history: what the health task did since the last failed ping
    next_id,         \* McpProtocolClient.next_id
    pending_requests,\* McpProtocolClient.pending_requests: ids that have a waiter
    message_handler, \* the reader task spawned by start_message_handler
    notification_q,  \* notifications queued in the notification channel
    t_connected,     \* the transport holds its child process and pipes
    rq_pc,           \* position of each send_request call
    rq_id,           \* send_request: id
    rq_res,          \* what the send_request call returned
    rx_id,           \* id of the response sent through the call's oneshot channel (0 = none)
    waiter,          \* the oneshot of the call: "none", "open", "result", "error"
    deadlinePassed,  \* request_timeout_ms have passed since the call began
    wire,            \* how often each request id was written to the transport
    inbound,         \* lines written by the server, not yet received
    server_alive,    \* the server process runs
    stdin_blocked,   \* the server does not read its stdin and the pipe is full
    bo_config,       \* backoff run: the ReconnectConfig of the run
    bo_current,      \* backoff run: current_backoff
    bo_slept,         \* backoff run: the backoffs slept so far, in order
    ix_aliases,      \* ToolIndex: alias -> ToolAlias
    ix_by_server,    \* ToolIndex: server id -> the aliases registered for it
    ix_registered,   \* the tools registered for a server since its last removal
    ix_call,         \* the last register_server_tools call of the manager (empty: none since a removal)
    ex_pc,           \* position of the CompositeToolExecutor::execute call
    ex_call,         \* the ToolCall being executed
    ex_builtin_res,  \* what builtin.execute returned
    ex_alias,        \* McpToolExecutor::execute: alias
    ex_mgr_res,      \* what manager.call_tool returned
    ex_mcp_res,      \* what mcp.execute returned
    ex_res,          \* what CompositeToolExecutor::execute returned
    ex_builtin_calls,\* how often the call invoked builtin.execute
    ex_mcp_calls,    \* how often the call invoked mcp.execute
    ex_manager_calls,\* how often the call invoked manager.call_tool
    sse_connected,   \* SseTransport.connected
    sse_endpoint_url,\* SseTransport.endpoint_url (Option, as a sequence)
    sse_task,        \* the task behind SseTransport.sse_handle: "none", "running", "ended"
    sse_chan,        \* messages queued in the inbound channel
    sse_events,      \* number of events the stream has delivered
    sse_announced,   \* history: the URL of the last endpoint event (Option)
    sse_post,        \* history: the last POST of send and what had been announced then
    sse_recv,        \* what the last receive returned since the task ended or started
    llm_pc,          \* position of the chat_stream call and of its stream
    llm_provider,    \* the provider chat_stream is called on
    llm_status,      \* status of the upstream HTTP response (0: none)
    llm_res,         \* what chat_stream returned
    llm_sse,         \* the data of the upstream SSE events not yet consumed
    llm_out,         \* the items the LLMStream has yielded
    gem_pc,          \* position of the stream of stream_generate_content
    gem_src,         \* history: the items of the provider's stream, all of them
    gem_in,          \* the items of the provider's stream not yet consumed
    gem_out,         \* the events the endpoint has emitted
    ant_pc,          \* position of the stream of the Anthropic messages endpoint
    ant_src,         \* history: the items of the provider's stream, all of them
    ant_in,          \* the items of the provider's stream not yet consumed
    ant_out,         \* the items of the body written so far
    ant_text,        \* the re-encoder has started the text block
    ant_open,        \* the text block is the block written last
    ant_index,       \* index of the next tool_use block
    w_pc,            \* position of the start_server / reconnect_server call that builds a client
    w_op,            \* which of the two operations it is
    w_new,           \* the transport of the operation's local client (0 = none)
    w_next,          \* number of transports created
    w_wire,          \* per transport: what the client has sent and the responses it has accepted
    w_conn,          \* per transport: connected
    w_runtime,       \* the transport of the client stored in the runtime (0 = no runtime)
    w_res,           \* what the last operation returned
    st_stream,       \* every byte the server has written to its stdout, in order
    st_pipe,         \* the bytes written and not yet consumed by the BufReader's read_line
    st_eof,          \* the server has closed its stdout
    st_pc,           \* position of the StdioTransport::receive call
    st_line,         \* receive: line, the String read_line appends to
    st_out,          \* the lines receive has returned as Ok(Some(..)), in order
    st_res,          \* what the last receive call returned
    gc_pc,           \* position of the generate_content call of the Gemini endpoint
    gc_src,          \* history: the items of the provider's stream, all of them
    gc_in,           \* the items of the provider's stream not yet consumed
    gc_full_content, \* generate_content: full_content
    gc_tool_calls,   \* generate_content: tool_calls (Option, as a sequence)
    gc_parts,        \* the parts of the candidate of the response
    gc_res,          \* what generate_content returned
    ch_sessions,     \* state.sessions: the messages of the session (Option, as a sequence)
    ch_storage,      \* state.storage: the messages of the saved session (Option, as a sequence)
    ch_pc,           \* position of each running chat handler
    ch_req,          \* the ChatRequest of each running chat handler
    ch_session,      \* handler: session, the handler's own copy (Option, as a sequence)
    ch_res,          \* the status of the response each handler returned last
    ch_count,        \* number of chat requests received
    art_files,       \* the artifacts directory: artifact id -> content of <id>.txt
    art_clock,       \* chrono::Utc::now().timestamp(), in seconds
    art_refs,        \* history: the ArtifactRef of every stored artifact with the full result passed, in order
    art_ret,         \* what the last cap_tool_result call returned
    art_calls        \* number of cap_tool_result calls made

cfgV == <<config>>
mapV == <<runtimes, mapRefs, nextRt, rtServer>>
flagV == <<shutdown, reconnecting>>
infoV == <<status, last_error, tool_count>>
toolV == <<rtTools, index>>
lockV == <<clientConn, clientR, clientW, infoW>>
evV == <<evQueued, lateEv>>
callV == <<cpc, crt, ctools, cres>>
healthV == <<hpc, attempt, current_backoff, newTools, runLog>>
histV == <<stopDone, stoppedSince>>

mgrVars == <<cfgV, mapV, flagV, infoV, toolV, lockV, evV, callV, healthV, histV>>

cliVars == <<next_id, pending_requests, message_handler, notification_q, t_connected,
             rq_pc, rq_id, rq_res, rx_id, waiter, deadlinePassed, wire, inbound,
             server_alive, stdin_blocked>>

boVars == <<bo_config, bo_current, bo_slept>>

ixVars == <<ix_aliases, ix_by_server, ix_registered, ix_call>>

\* the variables of the manager, the client, the backoff run and the index
coreV == <<mgrVars, cliVars, boVars, ixVars>>

exVars == <<ex_pc, ex_call, ex_builtin_res, ex_alias, ex_mgr_res, ex_mcp_res, ex_res,
            ex_builtin_calls, ex_mcp_calls, ex_manager_calls>>

\* the variables of the executors, transports, providers and controllers
sseVars == <<sse_connected, sse_endpoint_url, sse_task, sse_chan, sse_events,
             sse_announced, sse_post, sse_recv>>

llmVars == <<llm_pc, llm_provider, llm_status, llm_res, llm_sse, llm_out>>

gemVars == <<gem_pc, gem_src, gem_in, gem_out>>

antVars == <<ant_pc, ant_src, ant_in, ant_out, ant_text, ant_open, ant_index>>

wVars == <<w_pc, w_op, w_new, w_next, w_wire, w_conn, w_runtime, w_res>>

stVars == <<st_stream, st_pipe, st_eof, st_pc, st_line, st_out, st_res>>

gcVars == <<gc_pc, gc_src, gc_in, gc_full_content, gc_tool_calls, gc_parts, gc_res>>

chVars == <<ch_sessions, ch_storage, ch_pc, ch_req, ch_session, ch_res, ch_count>>

artVars == <<art_files, art_clock, art_refs, art_ret, art_calls>>

extV == <<exVars, sseVars, llmVars, gemVars, antVars, wVars, stVars, gcVars, chVars, artVars>>

\* what the actions of one component leave alone
notExV == <<artVars, chVars, gcVars, stVars, wVars, coreV, sseVars, llmVars, gemVars, antVars>>
notSseV == <<artVars, chVars, gcVars, stVars, wVars, coreV, exVars, llmVars, gemVars, antVars>>
notLlmV == <<artVars, chVars, gcVars, stVars, wVars, coreV, exVars, sseVars, gemVars, antVars>>
notGemV == <<artVars, chVars, gcVars, stVars, wVars, coreV, exVars, sseVars, llmVars, antVars>>
notAntV == <<artVars, chVars, gcVars, stVars, wVars, coreV, exVars, sseVars, llmVars, gemVars>>
notWV == <<artVars, chVars, gcVars, stVars, coreV, exVars, sseVars, llmVars, gemVars, antVars>>
notStV == <<artVars, chVars, gcVars, coreV, exVars, sseVars, llmVars, gemVars, antVars, wVars>>
notGcV == <<artVars, chVars, coreV, exVars, sseVars, llmVars, gemVars, antVars, wVars, stVars>>
notChV == <<artVars, coreV, exVars, sseVars, llmVars, gemVars, antVars, wVars, stVars, gcVars>>
notArtV == <<coreV, exVars, sseVars, llmVars, gemVars, antVars, wVars, stVars, gcVars, chVars>>


\* variables of the other components, which no manager action changes
restV == <<cliVars, boVars, ixVars, extV>>

vars == <<mgrVars, cliVars, boVars, ixVars, extV>>

MgrInit ==
    /\ config \in ReconnectConfigs
    /\ runtimes = [s \in Servers |-> 0]
    /\ mapRefs = [s \in Servers |-> {}]
    /\ nextRt = 0
    /\ rtServer = [r \in RuntimeIds |-> "s1"]
    /\ shutdown = [r \in RuntimeIds |-> FALSE]
    /\ reconnecting = [r \in RuntimeIds |-> FALSE]
    /\ status = [r \in RuntimeIds |-> "Stopped"]
    /\ last_error = [r \in RuntimeIds |-> "None"]
    /\ tool_count = [r \in RuntimeIds |-> 0]
    /\ rtTools = [r \in RuntimeIds |-> {}]
    /\ clientConn = [r \in RuntimeIds |-> FALSE]
    /\ clientR = [r \in RuntimeIds |-> {}]
    /\ clientW = [r \in RuntimeIds |-> None]
    /\ infoW = [r \in RuntimeIds |-> None]
    /\ index = {}
    /\ evQueued = <<>>
    /\ cpc = [c \in Callers |-> "idle"]
    /\ crt = [c \in Callers |-> 0]
    /\ ctools = [c \in Callers |-> {}]
    /\ cres = [c \in Callers |-> "none"]
    /\ hpc = [r \in RuntimeIds |-> "none"]
    /\ attempt = [r \in RuntimeIds |-> 0]
    /\ current_backoff = [r \in RuntimeIds |-> 0]
    /\ newTools = [r \in RuntimeIds |-> {}]
    /\ stopDone = [r \in RuntimeIds |-> FALSE]
    /\ lateEv = [r \in RuntimeIds |-> "none"]
    /\ stoppedSince = [s \in Servers |-> FALSE]
    /\ runLog = [r \in RuntimeIds |-> <<>>]

Requests == 1..MaxRequests

\* a client after McpProtocolClient::new and connect
ClientInit ==
    /\ next_id = 1
    /\ pending_requests = {}
    /\ message_handler = "running"
    /\ notification_q = 0
    /\ t_connected = TRUE
    /\ rq_pc = [q \in Requests |-> "idle"]
    /\ rq_id = [q \in Requests |-> 0]
    /\ rq_res = [q \in Requests |-> "none"]
    /\ rx_id = [q \in Requests |-> 0]
    /\ waiter = [q \in Requests |-> "none"]
    /\ deadlinePassed = [q \in Requests |-> FALSE]
    /\ wire = [i \in Requests |-> 0]
    /\ inbound = <<>>
    /\ server_alive = TRUE
    /\ stdin_blocked = FALSE

\* reconnect configurations of the backoff runs: <<initial_backoff_ms, max_backoff_ms>>
BackoffConfigs ==
    {<<i, m>> : i \in {1, 3, 100, 1000, 30000, 40000}, m \in {2, 1000, 30000}}

\* attempt_reconnection right after its locals are set
BackoffInit ==
    /\ bo_config \in BackoffConfigs
    /\ bo_current = bo_config[1]
    /\ bo_slept = <<>>

\* no backoff run is followed
BackoffIdle ==
    /\ bo_config = <<1, 4>>
    /\ bo_current = 1
    /\ bo_slept = <<>>

\* server ids and tool names of the index runs: opaque strings
IndexServers == {"git", "git__hub", "fs"}
IndexTools == {"read", "hub__read", "write"}

\* ToolIndex::new
IndexInit ==
    /\ ix_aliases = <<>>
    /\ ix_by_server = [s \in IndexServers |-> {}]
    /\ ix_registered = [s \in IndexServers |-> {}]
    /\ ix_call = <<>>

\* no value yet
NoResult == [kind |-> "none"]

\* no CompositeToolExecutor::execute call is under way
ExecInit ==
    /\ ex_pc = "idle"
    /\ ex_call = [name |-> "", arguments |-> ""]
    /\ ex_builtin_res = NoResult
    /\ ex_alias = NoResult
    /\ ex_mgr_res = NoResult
    /\ ex_mcp_res = NoResult
    /\ ex_res = NoResult
    /\ ex_builtin_calls = 0
    /\ ex_mcp_calls = 0
    /\ ex_manager_calls = 0

\* SseTransport::new
SseInit ==
    /\ sse_connected = FALSE
    /\ sse_endpoint_url = <<>>
    /\ sse_task = "none"
    /\ sse_chan = <<>>
    /\ sse_events = 0
    /\ sse_announced = <<>>
    /\ sse_post = <<>>
    /\ sse_recv = "none"

\* no chat_stream call yet
LlmInit ==
    /\ llm_pc = "idle"
    /\ llm_provider = ""
    /\ llm_status = 0
    /\ llm_res = NoResult
    /\ llm_sse = <<>>
    /\ llm_out = <<>>

\* no streamGenerateContent request yet
GeminiInit ==
    /\ gem_pc = "idle"
    /\ gem_src = <<>>
    /\ gem_in = <<>>
    /\ gem_out = <<>>

\* no Anthropic messages request yet
AnthropicInit ==
    /\ ant_pc = "idle"
    /\ ant_src = <<>>
    /\ ant_in = <<>>
    /\ ant_out = <<>>
    /\ ant_text = FALSE
    /\ ant_open = FALSE
    /\ ant_index = 0

\* no transport has been created and no runtime is stored
WireInit ==
    /\ w_pc = "idle"
    /\ w_op = "none"
    /\ w_new = 0
    /\ w_next = 0
    /\ w_wire = [t \in Transports |-> <<>>]
    /\ w_conn = [t \in Transports |-> FALSE]
    /\ w_runtime = 0
    /\ w_res = "none"

\* a connected StdioTransport whose server has written nothing
StdioInit ==
    /\ st_stream = <<>>
    /\ st_pipe = <<>>
    /\ st_eof = FALSE
    /\ st_pc = "idle"
    /\ st_line = ""
    /\ st_out = <<>>
    /\ st_res = "none"

\* no generateContent request yet
GenerateInit ==
    /\ gc_pc = "idle"
    /\ gc_src = <<>>
    /\ gc_in = <<>>
    /\ gc_full_content = ""
    /\ gc_tool_calls = <<>>
    /\ gc_parts = <<>>
    /\ gc_res = "none"

\* the server has no session in memory or in storage
ChatInit ==
    /\ ch_sessions = <<>>
    /\ ch_storage = <<>>
    /\ ch_pc = [h \in ChatTasks |-> "idle"]
    /\ ch_req = [h \in ChatTasks |-> NoRequest]
    /\ ch_session = [h \in ChatTasks |-> <<>>]
    /\ ch_res = [h \in ChatTasks |-> "none"]
    /\ ch_count = 0

\* a ToolOutputManager over an empty artifacts directory
ArtifactInit ==
    /\ art_files = [id \in {} |-> ""]
    /\ art_clock = 0
    /\ art_refs = <<>>
    /\ art_ret = NoResult
    /\ art_calls = 0

ExtInit == ExecInit /\ SseInit /\ LlmInit /\ GeminiInit /\ AnthropicInit /\ WireInit /\ StdioInit /\ GenerateInit /\ ChatInit /\ ArtifactInit

Init == MgrInit /\ ClientInit /\ BackoffIdle /\ IndexInit /\ ExtInit

(***************************************************************************)
(* Event channel: tokio::sync::mpsc::Sender::send(..).await waits for a    *)
(* free slot of the bounded channel; the subscriber frees one by receiving.*)
(***************************************************************************)
CanSend == Len(evQueued) < EventCap

\* McpEvent::ServerStatusChanged (kind is the status) and McpEvent::ToolsChanged
McpEvent(r, kind) == [kind |-> kind, server_id |-> rtServer[r]]

\* McpEvent::ToolExecuted
ToolExecuted(r, success) ==
    [kind |-> "ToolExecuted", server_id |-> rtServer[r], success |-> success]

\* tx.send(ev).await: the event is in the channel; the first event sent on
\* behalf of a runtime whose stop_server has returned is recorded in lateEv
Emit(r, ev) ==
    /\ CanSend
    /\ evQueued' = Append(evQueued, ev)
    /\ lateEv' = IF stopDone[r] /\ lateEv[r] = "none"
                 THEN [lateEv EXCEPT ![r] = ev.kind]
                 ELSE lateEv

SendEvent(r, kind) == Emit(r, McpEvent(r, kind))

SubscriberRecv ==
    /\ evQueued # <<>>
    /\ evQueued' = Tail(evQueued)
    /\ UNCHANGED <<cfgV, mapV, flagV, infoV, toolV, lockV, lateEv, callV, healthV,
                   histV, restV>>

(***************************************************************************)
(* ToolIndex (crate::tool_index)                                           *)
(***************************************************************************)
register_server_tools(idx, s, tools) == idx \cup {<<s, t>> : t \in tools}
remove_server_tools(idx, s) == {a \in idx : a[1] # s}

(***************************************************************************)
(* RwLock guards                                                           *)
(***************************************************************************)
CanRead(r) == clientW[r] = None
CanWrite(r) == clientW[r] = None /\ clientR[r] = {}
InfoFree(r) == infoW[r] = None

\* the last Arc<ServerRuntime> of r is gone (stop_server has returned and
\* the health task has ended): the object and its fields no longer exist
DropRuntime(r) ==
    /\ status' = [status EXCEPT ![r] = "Stopped"]
    /\ last_error' = [last_error EXCEPT ![r] = "None"]
    /\ tool_count' = [tool_count EXCEPT ![r] = 0]
    /\ rtTools' = [rtTools EXCEPT ![r] = {}]
    /\ runLog' = [runLog EXCEPT ![r] = <<>>]

\* the call of caller c returns res; its locals are dropped
Return(c, res) ==
    /\ cpc' = [cpc EXCEPT ![c] = "idle"]
    /\ crt' = [crt EXCEPT ![c] = 0]
    /\ ctools' = [ctools EXCEPT ![c] = {}]
    /\ cres' = [cres EXCEPT ![c] = res]

(***************************************************************************)
(* start_server                                                            *)
(***************************************************************************)
\* mutant: start_server without its contains_key check
start_server_check_NoCheck(c, s, budget) ==
    /\ cpc[c] = "idle"
    /\ cpc' = [cpc EXCEPT ![c] = "st_connect"]
    /\ stoppedSince' = [stoppedSince EXCEPT ![s] = FALSE]
    /\ UNCHANGED <<crt, ctools, cres, stopDone>>
    /\ UNCHANGED <<cfgV, mapV, flagV, infoV, toolV, lockV, evV, healthV, restV>>

\* contains_key check; on a present id the call returns AlreadyRunning
\* (budget bounds the runtimes the calls create)
start_server_check(c, s, budget) ==
    /\ cpc[c] = "idle"
    /\ \/ runtimes[s] # 0
       \/ nextRt + Cardinality({d \in Callers : cpc[d] \in {"st_connect", "st_register"}})
             < budget
    /\ IF runtimes[s] # 0
       THEN /\ Return(c, "AlreadyRunning")
            /\ UNCHANGED histV
       ELSE /\ cpc' = [cpc EXCEPT ![c] = "st_connect"]
            /\ stoppedSince' = [stoppedSince EXCEPT ![s] = FALSE]
            /\ UNCHANGED <<crt, ctools, cres, stopDone>>
    /\ UNCHANGED <<cfgV, mapV, flagV, infoV, toolV, lockV, evV, healthV, restV>>

\* mutant: the aliases are registered before the handshake, and stay
\* registered when it fails
start_server_connect_RegistersFirst(c) ==
    /\ cpc[c] = "st_connect"
    /\ \E T \in ToolSets :
         /\ index' = register_server_tools(index, "s1", T)
         /\ \/ Return(c, "Err")
            \/ /\ cpc' = [cpc EXCEPT ![c] = "st_register"]
               /\ ctools' = [ctools EXCEPT ![c] = T]
               /\ UNCHANGED <<crt, cres>>
    /\ UNCHANGED <<cfgV, mapV, flagV, infoV, rtTools, lockV, evV, healthV, histV, restV>>

\* connect, initialize, list_tools on the caller's own new client
start_server_connect(c) ==
    /\ cpc[c] = "st_connect"
    /\ \/ Return(c, "Err")
       \/ \E T \in ToolSets :
             /\ cpc' = [cpc EXCEPT ![c] = "st_register"]
             /\ ctools' = [ctools EXCEPT ![c] = T]
             /\ UNCHANGED <<crt, cres>>
    /\ UNCHANGED <<cfgV, mapV, flagV, infoV, toolV, lockV, evV, healthV, histV, restV>>

\* the ServerRuntime is created and its tools are registered in the index
start_server_register(c, s) ==
    /\ cpc[c] = "st_register"
    /\ LET r == nextRt + 1 IN
       /\ nextRt' = r
       /\ rtServer' = [rtServer EXCEPT ![r] = s]
       /\ status' = [status EXCEPT ![r] = "Ready"]
       /\ last_error' = [last_error EXCEPT ![r] = "None"]
       /\ tool_count' = [tool_count EXCEPT ![r] = Cardinality(ctools[c])]
       /\ rtTools' = [rtTools EXCEPT ![r] = ctools[c]]
       /\ clientConn' = [clientConn EXCEPT ![r] = TRUE]
       /\ index' = register_server_tools(index, s, ctools[c])
       /\ crt' = [crt EXCEPT ![c] = r]
       /\ cpc' = [cpc EXCEPT ![c] = "st_insert"]
    /\ UNCHANGED <<cfgV, runtimes, mapRefs, flagV, clientR, clientW, infoW, evV,
                   ctools, cres, healthV, histV, restV>>

\* runtimes.insert: waits for the entry's shard lock while a Ref is held
start_server_insert(c) ==
    /\ cpc[c] = "st_insert"
    /\ LET r == crt[c]
           s == rtServer[r] IN
       /\ mapRefs[s] = {}
       /\ runtimes' = [runtimes EXCEPT ![s] = r]
       /\ stoppedSince' = [stoppedSince EXCEPT ![s] = FALSE]
    /\ cpc' = [cpc EXCEPT ![c] = "st_emit_ready"]
    /\ UNCHANGED <<cfgV, mapRefs, nextRt, rtServer, flagV, infoV, toolV, lockV, evV,
                   crt, ctools, cres, healthV, stopDone, restV>>

\* send ServerStatusChanged{Ready}
start_server_emit_ready(c) ==
    /\ cpc[c] = "st_emit_ready"
    /\ SendEvent(crt[c], "Ready")
    /\ cpc' = [cpc EXCEPT ![c] = "st_emit_tools"]
    /\ UNCHANGED <<cfgV, mapV, flagV, infoV, toolV, lockV, crt, ctools, cres, healthV,
                   histV, restV>>

\* send ToolsChanged, then start_health_check spawns the health task
start_server_emit_tools(c) ==
    /\ cpc[c] = "st_emit_tools"
    /\ SendEvent(crt[c], "ToolsChanged")
    /\ hpc' = [hpc EXCEPT ![crt[c]] = "tick"]
    /\ Return(c, "Ok")
    /\ UNCHANGED <<cfgV, mapV, flagV, infoV, toolV, lockV, attempt,
                   current_backoff, newTools, runLog, histV, restV>>

(***************************************************************************)
(* stop_server                                                             *)
(***************************************************************************)
\* runtimes.remove (NotRunning when absent), then shutdown.store(true)
stop_server_remove(c, s) ==
    /\ cpc[c] = "idle"
    /\ IF runtimes[s] = 0
       THEN /\ Return(c, "NotRunning")
            /\ UNCHANGED <<runtimes, shutdown>>
       ELSE /\ mapRefs[s] = {}
            /\ runtimes' = [runtimes EXCEPT ![s] = 0]
            /\ shutdown' = [shutdown EXCEPT ![runtimes[s]] = TRUE]
            /\ crt' = [crt EXCEPT ![c] = runtimes[s]]
            /\ cpc' = [cpc EXCEPT ![c] = "sp_client"]
            /\ UNCHANGED <<ctools, cres>>
    /\ UNCHANGED <<cfgV, mapRefs, nextRt, rtServer, reconnecting, infoV, toolV, lockV,
                   evV, healthV, histV, restV>>

\* client.write().await, client.disconnect(); the guard is kept
stop_server_disconnect(c) ==
    /\ cpc[c] = "sp_client"
    /\ CanWrite(crt[c])
    /\ clientW' = [clientW EXCEPT ![crt[c]] = CallerProc(c)]
    /\ clientConn' = [clientConn EXCEPT ![crt[c]] = FALSE]
    /\ cpc' = [cpc EXCEPT ![c] = "sp_info"]
    /\ UNCHANGED <<cfgV, mapV, flagV, infoV, toolV, clientR, infoW, evV, crt, ctools,
                   cres, healthV, histV, restV>>

\* info.write().await, status = Stopped, index.remove_server_tools
stop_server_mark(c) ==
    /\ cpc[c] = "sp_info"
    /\ InfoFree(crt[c])
    /\ infoW' = [infoW EXCEPT ![crt[c]] = CallerProc(c)]
    /\ status' = [status EXCEPT ![crt[c]] = "Stopped"]
    /\ index' = remove_server_tools(index, rtServer[crt[c]])
    /\ cpc' = [cpc EXCEPT ![c] = "sp_emit"]
    /\ UNCHANGED <<cfgV, mapV, flagV, last_error, tool_count, rtTools, clientConn,
                   clientR, clientW, evV, crt, ctools, cres, healthV, histV, restV>>

\* send ServerStatusChanged{Stopped}; return Ok, dropping both guards
stop_server_emit(c) ==
    /\ cpc[c] = "sp_emit"
    /\ SendEvent(crt[c], "Stopped")
    /\ clientW' = [clientW EXCEPT ![crt[c]] = None]
    /\ infoW' = [infoW EXCEPT ![crt[c]] = None]
    /\ stopDone' = [stopDone EXCEPT ![crt[c]] = TRUE]
    /\ stoppedSince' = [stoppedSince EXCEPT ![rtServer[crt[c]]] = TRUE]
    /\ Return(c, "Ok")
    /\ IF hpc[crt[c]] \in {"none", "done"}
       THEN DropRuntime(crt[c])
       ELSE UNCHANGED <<status, last_error, tool_count, rtTools, runLog>>
    /\ UNCHANGED <<cfgV, mapV, flagV, index, clientConn, clientR, hpc, attempt,
                   current_backoff, newTools, restV>>

(***************************************************************************)
(* call_tool                                                               *)
(***************************************************************************)
\* runtimes.get (ServerNotFound when absent); the Ref is kept to the return
call_tool_get(c, s) ==
    /\ cpc[c] = "idle"
    /\ IF runtimes[s] = 0
       THEN /\ Return(c, "ServerNotFound")
            /\ UNCHANGED mapRefs
       ELSE /\ mapRefs' = [mapRefs EXCEPT ![s] = @ \cup {c}]
            /\ crt' = [crt EXCEPT ![c] = runtimes[s]]
            /\ cpc' = [cpc EXCEPT ![c] = "ct_client"]
            /\ UNCHANGED <<ctools, cres>>
    /\ UNCHANGED <<cfgV, runtimes, nextRt, rtServer, flagV, infoV, toolV, lockV, evV,
                   healthV, histV, restV>>

\* runtime.client.read().await
call_tool_lock(c) ==
    /\ cpc[c] = "ct_client"
    /\ CanRead(crt[c])
    /\ clientR' = [clientR EXCEPT ![crt[c]] = @ \cup {CallerProc(c)}]
    /\ cpc' = [cpc EXCEPT ![c] = "ct_rpc"]
    /\ UNCHANGED <<cfgV, mapV, flagV, infoV, toolV, clientConn, clientW, infoW, evV,
                   crt, ctools, cres, healthV, histV, restV>>

\* client.call_tool(..).await?: an Err returns at once, dropping the guards;
\* an Ok result, with its is_error flag, is kept in cres
call_tool_rpc(c) ==
    /\ cpc[c] = "ct_rpc"
    /\ \E ok \in (IF clientConn[crt[c]] THEN BOOLEAN ELSE {FALSE}) :
         IF ok
         THEN /\ \E is_error \in BOOLEAN :
                   cres' = [cres EXCEPT ![c] = IF is_error THEN "OkIsError" ELSE "Ok"]
              /\ cpc' = [cpc EXCEPT ![c] = "ct_emit"]
              /\ UNCHANGED <<crt, ctools, clientR, mapRefs>>
         ELSE /\ Return(c, "Err")
              /\ clientR' = [clientR EXCEPT ![crt[c]] = @ \ {CallerProc(c)}]
              /\ mapRefs' = [mapRefs EXCEPT ![rtServer[crt[c]]] = @ \ {c}]
    /\ UNCHANGED <<cfgV, runtimes, nextRt, rtServer, flagV, infoV, toolV, clientConn,
                   clientW, infoW, evV, healthV, histV, restV>>

\* mutant: success carries is_error instead of its negation
call_tool_emit_InvertedSuccess(c) ==
    /\ cpc[c] = "ct_emit"
    /\ Emit(crt[c], ToolExecuted(crt[c], cres[c] = "OkIsError"))
    /\ clientR' = [clientR EXCEPT ![crt[c]] = @ \ {CallerProc(c)}]
    /\ mapRefs' = [mapRefs EXCEPT ![rtServer[crt[c]]] = @ \ {c}]
    /\ Return(c, cres[c])
    /\ UNCHANGED <<cfgV, runtimes, nextRt, rtServer, flagV, infoV, toolV, clientConn,
                   clientW, infoW, healthV, histV, restV>>

\* send ToolExecuted, return Ok(result)
call_tool_emit(c) ==
    /\ cpc[c] = "ct_emit"
    /\ Emit(crt[c], ToolExecuted(crt[c], cres[c] # "OkIsError"))
    /\ clientR' = [clientR EXCEPT ![crt[c]] = @ \ {CallerProc(c)}]
    /\ mapRefs' = [mapRefs EXCEPT ![rtServer[crt[c]]] = @ \ {c}]
    /\ Return(c, cres[c])
    /\ UNCHANGED <<cfgV, runtimes, nextRt, rtServer, flagV, infoV, toolV, clientConn,
                   clientW, infoW, healthV, histV, restV>>

(***************************************************************************)
(* refresh_tools                                                           *)
(***************************************************************************)
\* runtimes.get (ServerNotFound when absent); the Ref is kept to the return
refresh_tools_get(c, s) ==
    /\ cpc[c] = "idle"
    /\ IF runtimes[s] = 0
       THEN /\ Return(c, "ServerNotFound")
            /\ UNCHANGED mapRefs
       ELSE /\ mapRefs' = [mapRefs EXCEPT ![s] = @ \cup {c}]
            /\ crt' = [crt EXCEPT ![c] = runtimes[s]]
            /\ cpc' = [cpc EXCEPT ![c] = "rf_client"]
            /\ UNCHANGED <<ctools, cres>>
    /\ UNCHANGED <<cfgV, runtimes, nextRt, rtServer, flagV, infoV, toolV, lockV, evV,
                   healthV, histV, restV>>

\* runtime.client.read().await
refresh_tools_lock(c) ==
    /\ cpc[c] = "rf_client"
    /\ CanRead(crt[c])
    /\ clientR' = [clientR EXCEPT ![crt[c]] = @ \cup {CallerProc(c)}]
    /\ cpc' = [cpc EXCEPT ![c] = "rf_rpc"]
    /\ UNCHANGED <<cfgV, mapV, flagV, infoV, toolV, clientConn, clientW, infoW, evV,
                   crt, ctools, cres, healthV, histV, restV>>

\* client.list_tools(..).await?, drop(client), *tools = new_tools
refresh_tools_rpc(c) ==
    /\ cpc[c] = "rf_rpc"
    /\ clientR' = [clientR EXCEPT ![crt[c]] = @ \ {CallerProc(c)}]
    /\ \/ /\ Return(c, "Err")
          /\ mapRefs' = [mapRefs EXCEPT ![rtServer[crt[c]]] = @ \ {c}]
          /\ UNCHANGED rtTools
       \/ /\ clientConn[crt[c]]
          /\ \E T \in ToolSets :
               /\ ctools' = [ctools EXCEPT ![c] = T]
               /\ rtTools' = [rtTools EXCEPT ![crt[c]] = T]
          /\ cpc' = [cpc EXCEPT ![c] = "rf_info"]
          /\ UNCHANGED <<crt, cres, mapRefs>>
    /\ UNCHANGED <<cfgV, runtimes, nextRt, rtServer, flagV, infoV, index, clientConn,
                   clientW, infoW, evV, healthV, histV, restV>>

\* info.write().await, tool_count, the aliases are removed and registered
refresh_tools_update(c) ==
    /\ cpc[c] = "rf_info"
    /\ InfoFree(crt[c])
    /\ infoW' = [infoW EXCEPT ![crt[c]] = CallerProc(c)]
    /\ tool_count' = [tool_count EXCEPT ![crt[c]] = Cardinality(ctools[c])]
    /\ index' = register_server_tools(remove_server_tools(index, rtServer[crt[c]]),
                                      rtServer[crt[c]], ctools[c])
    /\ cpc' = [cpc EXCEPT ![c] = "rf_emit"]
    /\ UNCHANGED <<cfgV, mapV, flagV, status, last_error, rtTools, clientConn, clientR,
                   clientW, evV, crt, ctools, cres, healthV, histV, restV>>

\* send ToolsChanged, return Ok
refresh_tools_emit(c) ==
    /\ cpc[c] = "rf_emit"
    /\ SendEvent(crt[c], "ToolsChanged")
    /\ infoW' = [infoW EXCEPT ![crt[c]] = None]
    /\ mapRefs' = [mapRefs EXCEPT ![rtServer[crt[c]]] = @ \ {c}]
    /\ Return(c, "Ok")
    /\ UNCHANGED <<cfgV, runtimes, nextRt, rtServer, flagV, infoV, toolV, clientConn,
                   clientR, clientW, healthV, histV, restV>>

(***************************************************************************)
(* start_health_check: the spawned health task of runtime r                *)
(***************************************************************************)
\* interval.tick().await, then the shutdown and reconnecting checks
health_tick(r) ==
    /\ hpc[r] = "tick"
    /\ hpc' = [hpc EXCEPT ![r] = IF shutdown[r] THEN "done"
                                 ELSE IF reconnecting[r] THEN "tick"
                                 ELSE "ping_lock"]
    /\ IF shutdown[r] /\ stopDone[r]
       THEN DropRuntime(r)
       ELSE UNCHANGED <<status, last_error, tool_count, rtTools, runLog>>
    /\ UNCHANGED <<cfgV, mapV, flagV, index, lockV, evV, callV, attempt,
                   current_backoff, newTools, histV, restV>>

\* runtime.client.read().await
health_lock_client(r) ==
    /\ hpc[r] = "ping_lock"
    /\ CanRead(r)
    /\ clientR' = [clientR EXCEPT ![r] = @ \cup {HealthProc(r)}]
    /\ hpc' = [hpc EXCEPT ![r] = "ping"]
    /\ UNCHANGED <<cfgV, mapV, flagV, infoV, toolV, clientConn, clientW, infoW, evV,
                   callV, attempt, current_backoff, newTools, runLog, histV, restV>>

\* the write of a request to the stdin of the runtime's server completes:
\* it fails at once on a disconnected transport or a dead server, and it
\* stays pending while the server does not read its stdin
SendNotBlocked(r) == ~clientConn[r] \/ ~server_alive \/ ~stdin_blocked

\* client.ping(..).await: Ok needs a connected client; on Err the client
\* guard is dropped
health_ping(r) ==
    /\ hpc[r] = "ping"
    /\ SendNotBlocked(r)
    /\ \E ok \in (IF clientConn[r] THEN BOOLEAN ELSE {FALSE}) :
         IF ok
         THEN /\ hpc' = [hpc EXCEPT ![r] = "ok_info"]
              /\ UNCHANGED clientR
         ELSE /\ hpc' = [hpc EXCEPT ![r] = "err_info"]
              /\ clientR' = [clientR EXCEPT ![r] = @ \ {HealthProc(r)}]
    /\ UNCHANGED <<cfgV, mapV, flagV, infoV, toolV, clientConn, clientW, infoW, evV,
                   callV, attempt, current_backoff, newTools, runLog, histV, restV>>

\* mutant: the recovery event is sent but the status stays Degraded
health_ok_KeepsDegraded(r) ==
    /\ hpc[r] = "ok_info"
    /\ InfoFree(r)
    /\ IF status[r] = "Degraded"
       THEN /\ UNCHANGED status
            /\ infoW' = [infoW EXCEPT ![r] = HealthProc(r)]
            /\ hpc' = [hpc EXCEPT ![r] = "ok_emit"]
            /\ UNCHANGED clientR
       ELSE /\ clientR' = [clientR EXCEPT ![r] = @ \ {HealthProc(r)}]
            /\ hpc' = [hpc EXCEPT ![r] = "tick"]
            /\ UNCHANGED <<status, infoW>>
    /\ UNCHANGED <<cfgV, mapV, flagV, last_error, tool_count, toolV, clientConn,
                   clientW, evV, callV, attempt, current_backoff, newTools, runLog,
                   histV, restV>>

\* Ok arm: info.write().await; Degraded is promoted to Ready
health_ok(r) ==
    /\ hpc[r] = "ok_info"
    /\ InfoFree(r)
    /\ IF status[r] = "Degraded"
       THEN /\ status' = [status EXCEPT ![r] = "Ready"]
            /\ infoW' = [infoW EXCEPT ![r] = HealthProc(r)]
            /\ hpc' = [hpc EXCEPT ![r] = "ok_emit"]
            /\ UNCHANGED clientR
       ELSE /\ clientR' = [clientR EXCEPT ![r] = @ \ {HealthProc(r)}]
            /\ hpc' = [hpc EXCEPT ![r] = "tick"]
            /\ UNCHANGED <<status, infoW>>
    /\ UNCHANGED <<cfgV, mapV, flagV, last_error, tool_count, toolV, clientConn,
                   clientW, evV, callV, attempt, current_backoff, newTools, runLog,
                   histV, restV>>

\* Ok arm: send ServerStatusChanged{Ready}; both guards drop at the end of
\* the iteration
health_ok_emit(r) ==
    /\ hpc[r] = "ok_emit"
    /\ SendEvent(r, "Ready")
    /\ infoW' = [infoW EXCEPT ![r] = None]
    /\ clientR' = [clientR EXCEPT ![r] = @ \ {HealthProc(r)}]
    /\ hpc' = [hpc EXCEPT ![r] = "tick"]
    /\ UNCHANGED <<cfgV, mapV, flagV, infoV, toolV, clientConn, clientW, callV,
                   attempt, current_backoff, newTools, runLog, histV, restV>>

\* Err arm: status = Degraded, last_error = the ping error
health_err(r) ==
    /\ hpc[r] = "err_info"
    /\ InfoFree(r)
    /\ status' = [status EXCEPT ![r] = "Degraded"]
    /\ last_error' = [last_error EXCEPT ![r] = "ping"]
    /\ hpc' = [hpc EXCEPT ![r] = "err_emit"]
    /\ UNCHANGED <<cfgV, mapV, flagV, tool_count, toolV, lockV, evV, callV, attempt,
                   current_backoff, newTools, runLog, histV, restV>>

\* the compare_exchange on reconnecting that opens attempt_reconnection
ReconnectCas(r) == reconnecting[r] = FALSE

\* Err arm: send ServerStatusChanged{Degraded}; with reconnect.enabled
\* attempt_reconnection starts: the compare-and-set and the loop's locals
health_err_emit(r) ==
    /\ hpc[r] = "err_emit"
    /\ SendEvent(r, "Degraded")
    /\ runLog' = [runLog EXCEPT ![r] = <<"Degraded">>]
    /\ IF config.enabled /\ ReconnectCas(r)
       THEN /\ reconnecting' = [reconnecting EXCEPT ![r] = TRUE]
            /\ current_backoff' = [current_backoff EXCEPT ![r] = config.initial_backoff_ms]
            /\ attempt' = [attempt EXCEPT ![r] = 0]
            /\ hpc' = [hpc EXCEPT ![r] = "rc_top"]
       ELSE /\ hpc' = [hpc EXCEPT ![r] = "tick"]
            /\ UNCHANGED <<reconnecting, current_backoff, attempt>>
    /\ UNCHANGED <<cfgV, mapV, shutdown, infoV, toolV, lockV, callV, newTools,
                   histV, restV>>

(***************************************************************************)
(* attempt_reconnection: runs inside the health task of runtime r          *)
(***************************************************************************)
\* the check if it counted the attempt about to be made
MaxAttemptsReached_OffByOne(r) ==
    config.max_attempts > 0 /\ attempt[r] + 1 >= config.max_attempts

\* the check without its max_attempts > 0 conjunct
MaxAttemptsReached_NoZeroCheck(r) ==
    attempt[r] >= config.max_attempts

\* the max-attempts check at the head of the loop
MaxAttemptsReached(r) ==
    config.max_attempts > 0 /\ attempt[r] >= config.max_attempts

Min(a, b) == IF a < b THEN a ELSE b

\* the backoff after a failed attempt
NextBackoff(current, max_backoff_ms) ==
    IF max_backoff_ms > current
    THEN Min(current * 2, max_backoff_ms)
    ELSE current

\* a return of attempt_reconnection that leaves reconnecting set
reconnect_exit_KeepsFlag(r) ==
    /\ UNCHANGED reconnecting
    /\ attempt' = [attempt EXCEPT ![r] = 0]
    /\ current_backoff' = [current_backoff EXCEPT ![r] = 0]

\* attempt_reconnection returns: reconnecting.store(false), the locals die
reconnect_exit(r) ==
    /\ reconnecting' = [reconnecting EXCEPT ![r] = FALSE]
    /\ attempt' = [attempt EXCEPT ![r] = 0]
    /\ current_backoff' = [current_backoff EXCEPT ![r] = 0]

\* loop head: shutdown check, max-attempts check, attempt += 1
reconnect_loop_head(r) ==
    /\ hpc[r] = "rc_top"
    /\ shutdown[r] \/ config.max_attempts > 0 \/ attempt[r] < AttemptCap
    /\ IF shutdown[r]
       THEN /\ reconnect_exit(r)
            /\ hpc' = [hpc EXCEPT ![r] = "tick"]
       ELSE IF MaxAttemptsReached(r)
       THEN /\ hpc' = [hpc EXCEPT ![r] = "rc_max_info"]
            /\ UNCHANGED <<reconnecting, attempt, current_backoff>>
       ELSE /\ attempt' = [attempt EXCEPT ![r] = @ + 1]
            /\ hpc' = [hpc EXCEPT ![r] = "rc_sleep"]
            /\ UNCHANGED <<reconnecting, current_backoff>>
    /\ UNCHANGED <<cfgV, mapV, shutdown, infoV, toolV, lockV, evV, callV,
                   newTools, runLog, histV, restV>>

\* max attempts: info.write().await, status = Error
reconnect_max_mark(r) ==
    /\ hpc[r] = "rc_max_info"
    /\ InfoFree(r)
    /\ infoW' = [infoW EXCEPT ![r] = HealthProc(r)]
    /\ status' = [status EXCEPT ![r] = "Error"]
    /\ last_error' = [last_error EXCEPT ![r] = "max"]
    /\ hpc' = [hpc EXCEPT ![r] = "rc_max_emit"]
    /\ UNCHANGED <<cfgV, mapV, flagV, tool_count, toolV, clientConn, clientR, clientW,
                   evV, callV, attempt, current_backoff, newTools, runLog, histV, restV>>

\* max attempts: send ServerStatusChanged{Error}, reconnecting = false,
\* return Err to the health loop
reconnect_max_emit(r) ==
    /\ hpc[r] = "rc_max_emit"
    /\ SendEvent(r, "Error")
    /\ runLog' = [runLog EXCEPT ![r] = Append(@, "Error")]
    /\ reconnect_exit(r)
    /\ infoW' = [infoW EXCEPT ![r] = None]
    /\ hpc' = [hpc EXCEPT ![r] = "tick"]
    /\ UNCHANGED <<cfgV, mapV, shutdown, infoV, toolV, clientConn, clientR, clientW,
                   callV, newTools, histV, restV>>

\* tokio::time::sleep(current_backoff).await is over
reconnect_sleep(r) ==
    /\ hpc[r] = "rc_sleep"
    /\ hpc' = [hpc EXCEPT ![r] = "rs_disc"]
    /\ UNCHANGED <<cfgV, mapV, flagV, infoV, toolV, lockV, evV, callV, attempt,
                   current_backoff, newTools, runLog, histV, restV>>

\* reconnect_server: client.write().await, disconnect the stale client
reconnect_server_disconnect(r) ==
    /\ hpc[r] = "rs_disc"
    /\ CanWrite(r)
    /\ clientConn' = [clientConn EXCEPT ![r] = FALSE]
    /\ hpc' = [hpc EXCEPT ![r] = "rs_connect"]
    /\ UNCHANGED <<cfgV, mapV, flagV, infoV, toolV, clientR, clientW, infoW, evV,
                   callV, attempt, current_backoff, newTools, runLog, histV, restV>>

\* reconnect_server: connect, initialize and list_tools on a new client
reconnect_server_connect(r) ==
    /\ hpc[r] = "rs_connect"
    /\ \/ /\ hpc' = [hpc EXCEPT ![r] = "rc_fail_info"]
          /\ runLog' = [runLog EXCEPT ![r] = Append(@, "failed")]
          /\ UNCHANGED newTools
       \/ \E T \in ToolSets :
             /\ newTools' = [newTools EXCEPT ![r] = T]
             /\ runLog' = [runLog EXCEPT ![r] = Append(@, "connected")]
             /\ hpc' = [hpc EXCEPT ![r] = "rs_swap"]
    /\ UNCHANGED <<cfgV, mapV, flagV, infoV, toolV, lockV, evV, callV, attempt,
                   current_backoff, histV, restV>>

\* reconnect_server: swap the client and the tools, re-register the aliases
reconnect_server_swap(r) ==
    /\ hpc[r] = "rs_swap"
    /\ CanWrite(r)
    /\ clientConn' = [clientConn EXCEPT ![r] = TRUE]
    /\ rtTools' = [rtTools EXCEPT ![r] = newTools[r]]
    /\ index' = register_server_tools(remove_server_tools(index, rtServer[r]),
                                      rtServer[r], newTools[r])
    /\ newTools' = [newTools EXCEPT ![r] = {}]
    /\ hpc' = [hpc EXCEPT ![r] = "rs_emit"]
    /\ UNCHANGED <<cfgV, mapV, flagV, infoV, clientR, clientW, infoW, evV, callV,
                   attempt, current_backoff, runLog, histV, restV>>

\* reconnect_server: send ToolsChanged and return Ok
reconnect_server_emit(r) ==
    /\ hpc[r] = "rs_emit"
    /\ SendEvent(r, "ToolsChanged")
    /\ hpc' = [hpc EXCEPT ![r] = "rc_ok_info"]
    /\ UNCHANGED <<cfgV, mapV, flagV, infoV, toolV, lockV, callV, attempt,
                   current_backoff, newTools, runLog, histV, restV>>

\* Ok arm: info.write().await, status = Ready, last_error = None
reconnect_ok_mark(r) ==
    /\ hpc[r] = "rc_ok_info"
    /\ InfoFree(r)
    /\ infoW' = [infoW EXCEPT ![r] = HealthProc(r)]
    /\ status' = [status EXCEPT ![r] = "Ready"]
    /\ last_error' = [last_error EXCEPT ![r] = "None"]
    /\ hpc' = [hpc EXCEPT ![r] = "rc_ok_emit"]
    /\ UNCHANGED <<cfgV, mapV, flagV, tool_count, toolV, clientConn, clientR, clientW,
                   evV, callV, attempt, current_backoff, newTools, runLog, histV, restV>>

\* Ok arm: send ServerStatusChanged{Ready}, reconnecting = false, return Ok
reconnect_ok_emit(r) ==
    /\ hpc[r] = "rc_ok_emit"
    /\ SendEvent(r, "Ready")
    /\ reconnect_exit(r)
    /\ infoW' = [infoW EXCEPT ![r] = None]
    /\ hpc' = [hpc EXCEPT ![r] = "tick"]
    /\ UNCHANGED <<cfgV, mapV, shutdown, infoV, toolV, clientConn, clientR, clientW,
                   callV, newTools, runLog, histV, restV>>

\* Err arm: info.write().await, last_error = the error, the backoff grows
reconnect_failed(r) ==
    /\ hpc[r] = "rc_fail_info"
    /\ InfoFree(r)
    /\ last_error' = [last_error EXCEPT ![r] = "reconnect"]
    /\ current_backoff' = [current_backoff EXCEPT ![r] =
                              NextBackoff(@, config.max_backoff_ms)]
    /\ hpc' = [hpc EXCEPT ![r] = "rc_top"]
    /\ UNCHANGED <<cfgV, mapV, flagV, status, tool_count, toolV, lockV, evV, callV,
                   attempt, newTools, runLog, histV, restV>>

(***************************************************************************)
(* Spec: the lifecycle of a server driven by one API caller: start_server  *)
(* and stop_server, the health task with its reconnection runs, and the    *)
(* event subscriber.                                                       *)
(***************************************************************************)
MainCallers == {1}

HealthNext ==
    \/ \E r \in RuntimeIds : health_tick(r)
    \/ \E r \in RuntimeIds : health_lock_client(r)
    \/ \E r \in RuntimeIds : health_ping(r)
    \/ \E r \in RuntimeIds : health_ok(r)
    \/ \E r \in RuntimeIds : health_ok_emit(r)
    \/ \E r \in RuntimeIds : health_err(r)
    \/ \E r \in RuntimeIds : health_err_emit(r)

Next ==
    \/ \E c \in MainCallers, s \in Servers : start_server_check(c, s, MainStarts)
    \/ \E c \in MainCallers : start_server_connect(c)
    \/ \E c \in MainCallers, s \in Servers : start_server_register(c, s)
    \/ \E c \in MainCallers : start_server_insert(c)
    \/ \E c \in MainCallers : start_server_emit_ready(c)
    \/ \E c \in MainCallers : start_server_emit_tools(c)
    \/ \E c \in MainCallers, s \in Servers : stop_server_remove(c, s)
    \/ \E c \in MainCallers : stop_server_disconnect(c)
    \/ \E c \in MainCallers : stop_server_mark(c)
    \/ \E c \in MainCallers : stop_server_emit(c)
    \/ HealthNext
    \/ \E r \in RuntimeIds : reconnect_loop_head(r)
    \/ \E r \in RuntimeIds : reconnect_max_mark(r)
    \/ \E r \in RuntimeIds : reconnect_max_emit(r)
    \/ \E r \in RuntimeIds : reconnect_sleep(r)
    \/ \E r \in RuntimeIds : reconnect_server_disconnect(r)
    \/ \E r \in RuntimeIds : reconnect_server_connect(r)
    \/ \E r \in RuntimeIds : reconnect_server_swap(r)
    \/ \E r \in RuntimeIds : reconnect_server_emit(r)
    \/ \E r \in RuntimeIds : reconnect_ok_mark(r)
    \/ \E r \in RuntimeIds : reconnect_ok_emit(r)
    \/ \E r \in RuntimeIds : reconnect_failed(r)
    \/ SubscriberRecv

Spec == Init /\ [][Next]_vars

(***************************************************************************)
(* SpecOverlap: start_server and stop_server calls that overlap in time,   *)
(* on servers configured with reconnect.enabled = false, so that a failed  *)
(* ping only degrades the server.                                          *)
(***************************************************************************)
InitNoReconnect == Init /\ ~config.enabled

NextOverlap ==
    \/ \E c \in Callers, s \in Servers : start_server_check(c, s, MaxRuntimes)
    \/ \E c \in Callers : start_server_connect(c)
    \/ \E c \in Callers, s \in Servers : start_server_register(c, s)
    \/ \E c \in Callers : start_server_insert(c)
    \/ \E c \in Callers : start_server_emit_ready(c)
    \/ \E c \in Callers : start_server_emit_tools(c)
    \/ \E c \in Callers, s \in Servers : stop_server_remove(c, s)
    \/ \E c \in Callers : stop_server_disconnect(c)
    \/ \E c \in Callers : stop_server_mark(c)
    \/ \E c \in Callers : stop_server_emit(c)
    \/ HealthNext
    \/ SubscriberRecv

SpecOverlap == InitNoReconnect /\ [][NextOverlap]_vars

(***************************************************************************)
(* SpecApi: one caller starts and stops the server while the other callers *)
(* use it through call_tool and refresh_tools; reconnect.enabled = false.  *)
(***************************************************************************)
ToolCallers == Callers \ MainCallers

NextApi ==
    \/ \E c \in MainCallers, s \in Servers : start_server_check(c, s, MainStarts)
    \/ \E c \in MainCallers : start_server_connect(c)
    \/ \E c \in MainCallers, s \in Servers : start_server_register(c, s)
    \/ \E c \in MainCallers : start_server_insert(c)
    \/ \E c \in MainCallers : start_server_emit_ready(c)
    \/ \E c \in MainCallers : start_server_emit_tools(c)
    \/ \E c \in MainCallers, s \in Servers : stop_server_remove(c, s)
    \/ \E c \in MainCallers : stop_server_disconnect(c)
    \/ \E c \in MainCallers : stop_server_mark(c)
    \/ \E c \in MainCallers : stop_server_emit(c)
    \/ \E c \in ToolCallers, s \in Servers : call_tool_get(c, s)
    \/ \E c \in ToolCallers : call_tool_lock(c)
    \/ \E c \in ToolCallers : call_tool_rpc(c)
    \/ \E c \in ToolCallers : call_tool_emit(c)
    \/ \E c \in ToolCallers, s \in Servers : refresh_tools_get(c, s)
    \/ \E c \in ToolCallers : refresh_tools_lock(c)
    \/ \E c \in ToolCallers : refresh_tools_rpc(c)
    \/ \E c \in ToolCallers : refresh_tools_update(c)
    \/ \E c \in ToolCallers : refresh_tools_emit(c)
    \/ HealthNext
    \/ SubscriberRecv

SpecApi == InitNoReconnect /\ [][NextApi]_vars

(***************************************************************************)
(* McpProtocolClient over a StdioTransport                                 *)
(***************************************************************************)
\* messages a server can write: a response carries an id and may carry a
\* JSON-RPC error object; a notification carries no id
Response(i, e) == [type |-> "response", id |-> i, error |-> e]
Notification == [type |-> "notification", id |-> 0, error |-> FALSE]

\* capacity of the notification channel
NotificationCap == 100

\* mutant: a response resolves whichever waiter is open
WaiterOf_AnyOpen(i) == {q \in Requests : waiter[q] = "open"}

\* the call whose waiter is stored under id i
WaiterOf(i) == {q \in Requests : rq_id[q] = i /\ waiter[q] = "open"}

\* send_request: next_id.fetch_add, then the waiter is inserted
send_request_alloc(q) ==
    /\ rq_pc[q] = "idle"
    /\ rq_res[q] = "none"
    /\ rq_id' = [rq_id EXCEPT ![q] = next_id]
    /\ next_id' = next_id + 1
    /\ pending_requests' = pending_requests \cup {next_id}
    /\ waiter' = [waiter EXCEPT ![q] = "open"]
    /\ rq_pc' = [rq_pc EXCEPT ![q] = "send"]
    /\ UNCHANGED <<message_handler, notification_q, t_connected, rq_res, rx_id,
                   deadlinePassed, wire, inbound, server_alive, stdin_blocked, mgrVars, boVars, ixVars, extV>>

\* StdioTransport::send can complete: with a full pipe write_all stays
\* pending until the server reads
SendCompletes == ~t_connected \/ ~server_alive \/ ~stdin_blocked

\* send_request: transport.send(request_json).await?
send_request_send(q) ==
    /\ rq_pc[q] = "send"
    /\ SendCompletes
    /\ IF ~t_connected
       THEN /\ rq_res' = [rq_res EXCEPT ![q] = "Disconnected"]
            /\ rq_pc' = [rq_pc EXCEPT ![q] = "done"]
            /\ UNCHANGED wire
       ELSE IF ~server_alive
       THEN /\ rq_res' = [rq_res EXCEPT ![q] = "Transport"]
            /\ rq_pc' = [rq_pc EXCEPT ![q] = "done"]
            /\ UNCHANGED wire
       ELSE /\ wire' = [wire EXCEPT ![rq_id[q]] = @ + 1]
            /\ rq_pc' = [rq_pc EXCEPT ![q] = "wait"]
            /\ UNCHANGED rq_res
    /\ UNCHANGED <<next_id, pending_requests, message_handler, notification_q,
                   t_connected, rq_id, rx_id, waiter, deadlinePassed, inbound, server_alive,
                   stdin_blocked, mgrVars, boVars, ixVars, extV>>

\* send_request: the waiter resolves before the timeout
send_request_receive(q) ==
    /\ rq_pc[q] = "wait"
    /\ waiter[q] \in {"result", "error"}
    /\ rq_res' = [rq_res EXCEPT ![q] = IF waiter[q] = "error" THEN "Protocol" ELSE "Ok"]
    /\ waiter' = [waiter EXCEPT ![q] = "none"]
    /\ rq_pc' = [rq_pc EXCEPT ![q] = "done"]
    /\ UNCHANGED <<next_id, pending_requests, message_handler, notification_q,
                   t_connected, rq_id, rx_id, deadlinePassed, wire, inbound, server_alive,
                   stdin_blocked, mgrVars, boVars, ixVars, extV>>

\* mutant: on timeout the request is written again and awaited again
send_request_timeout_Resends(q) ==
    /\ rq_pc[q] = "wait"
    /\ deadlinePassed[q]
    /\ waiter[q] = "open"
    /\ wire[rq_id[q]] < 2
    /\ wire' = [wire EXCEPT ![rq_id[q]] = @ + 1]
    /\ deadlinePassed' = [deadlinePassed EXCEPT ![q] = FALSE]
    /\ UNCHANGED <<next_id, pending_requests, message_handler, notification_q,
                   t_connected, rq_pc, rq_id, rq_res, rx_id, waiter, inbound,
                   server_alive, stdin_blocked, mgrVars, boVars, ixVars, extV>>

\* send_request: tokio::time::timeout elapses, the waiter is removed
send_request_timeout(q) ==
    /\ rq_pc[q] = "wait"
    /\ deadlinePassed[q]
    /\ waiter[q] = "open"
    /\ pending_requests' = pending_requests \ {rq_id[q]}
    /\ waiter' = [waiter EXCEPT ![q] = "none"]
    /\ rq_res' = [rq_res EXCEPT ![q] = "Timeout"]
    /\ rq_pc' = [rq_pc EXCEPT ![q] = "done"]
    /\ UNCHANGED <<next_id, message_handler, notification_q, t_connected, rq_id, rx_id,
                   deadlinePassed, wire, inbound, server_alive, stdin_blocked, mgrVars, boVars, ixVars, extV>>

\* request_timeout_ms have passed since the call was made
clock_deadline(q) ==
    /\ rq_pc[q] \in {"send", "wait"}
    /\ ~deadlinePassed[q]
    /\ deadlinePassed' = [deadlinePassed EXCEPT ![q] = TRUE]
    /\ UNCHANGED <<next_id, pending_requests, message_handler, notification_q,
                   t_connected, rq_pc, rq_id, rq_res, rx_id, waiter, wire, inbound,
                   server_alive, stdin_blocked, mgrVars, boVars, ixVars, extV>>

\* handle_message on the next line of the server: a response resolves and
\* removes the waiter stored under its id; a notification is sent to the
\* notification channel, which waits for a free slot
handle_message ==
    /\ message_handler = "running"
    /\ t_connected
    /\ inbound # <<>>
    /\ LET m == Head(inbound) IN
       IF m.type = "response"
       THEN /\ IF m.id \in pending_requests
               THEN /\ pending_requests' = pending_requests \ {m.id}
                    /\ waiter' = [q \in Requests |->
                                    IF q \in WaiterOf(m.id)
                                    THEN IF m.error THEN "error" ELSE "result"
                                    ELSE waiter[q]]
                    /\ rx_id' = [q \in Requests |->
                                    IF q \in WaiterOf(m.id) THEN m.id ELSE rx_id[q]]
               ELSE UNCHANGED <<pending_requests, waiter, rx_id>>
            /\ UNCHANGED notification_q
       ELSE /\ notification_q < NotificationCap
            /\ notification_q' = notification_q + 1
            /\ UNCHANGED <<pending_requests, waiter, rx_id>>
    /\ inbound' = Tail(inbound)
    /\ UNCHANGED <<next_id, message_handler, t_connected, rq_pc, rq_id, rq_res,
                   deadlinePassed, wire, server_alive, stdin_blocked, mgrVars, boVars, ixVars, extV>>

\* the reader task reads EOF from the exited server and ends
handler_eof ==
    /\ message_handler = "running"
    /\ t_connected
    /\ inbound = <<>>
    /\ ~server_alive
    /\ message_handler' = "ended"
    /\ UNCHANGED <<next_id, pending_requests, notification_q, t_connected, rq_pc,
                   rq_id, rq_res, rx_id, waiter, deadlinePassed, wire, inbound, server_alive,
                   stdin_blocked, mgrVars, boVars, ixVars, extV>>

\* McpProtocolClient::disconnect (&mut self: no call is in flight): the
\* reader task is aborted and the transport drops the child and its pipes
client_disconnect ==
    /\ t_connected
    /\ \A q \in Requests : rq_pc[q] \in {"idle", "done"}
    /\ message_handler' = "ended"
    /\ t_connected' = FALSE
    /\ inbound' = <<>>
    /\ UNCHANGED <<next_id, pending_requests, notification_q, rq_pc, rq_id, rq_res, rx_id,
                   waiter, deadlinePassed, wire, server_alive, stdin_blocked, mgrVars, boVars, ixVars, extV>>

\* the server answers a request it has read (with a result or an error)
server_respond(i, e) ==
    /\ server_alive
    /\ t_connected
    /\ wire[i] > 0
    /\ Len(inbound) < MaxInbound
    /\ inbound' = Append(inbound, Response(i, e))
    /\ UNCHANGED <<next_id, pending_requests, message_handler, notification_q,
                   t_connected, rq_pc, rq_id, rq_res, rx_id, waiter, deadlinePassed, wire,
                   server_alive, stdin_blocked, mgrVars, boVars, ixVars, extV>>

\* the server stops or resumes reading its stdin
server_stdin(b) ==
    /\ server_alive
    /\ t_connected
    /\ stdin_blocked # b
    /\ stdin_blocked' = b
    /\ UNCHANGED <<next_id, pending_requests, message_handler, notification_q,
                   t_connected, rq_pc, rq_id, rq_res, rx_id, waiter, deadlinePassed, wire,
                   inbound, server_alive, mgrVars, boVars, ixVars, extV>>

\* the server process exits
server_exit ==
    /\ server_alive
    /\ server_alive' = FALSE
    /\ stdin_blocked' = FALSE
    /\ UNCHANGED <<next_id, pending_requests, message_handler, notification_q,
                   t_connected, rq_pc, rq_id, rq_res, rx_id, waiter, deadlinePassed, wire,
                   inbound, mgrVars, boVars, ixVars, extV>>

(***************************************************************************)
(* SpecClient: send_request calls on one connected client, its reader      *)
(* task, the clock and the server.                                         *)
(***************************************************************************)
NextClient ==
    \/ \E q \in Requests : send_request_alloc(q)
    \/ \E q \in Requests : send_request_send(q)
    \/ \E q \in Requests : send_request_receive(q)
    \/ \E q \in Requests : send_request_timeout(q)
    \/ \E q \in Requests : clock_deadline(q)
    \/ handle_message
    \/ handler_eof
    \/ client_disconnect
    \/ \E i \in Requests, e \in BOOLEAN : server_respond(i, e)
    \/ \E b \in BOOLEAN : server_stdin(b)
    \/ server_exit

SpecClient == InitNoReconnect /\ [][NextClient]_vars

(***************************************************************************)
(* SpecNotify: SpecClient's calls and reader task with a server that also  *)
(* writes notifications; nothing calls try_receive_notification.           *)
(***************************************************************************)
\* the server writes a notification
server_notify ==
    /\ server_alive
    /\ t_connected
    /\ Len(inbound) < MaxInbound
    /\ inbound' = Append(inbound, Notification)
    /\ UNCHANGED <<next_id, pending_requests, message_handler, notification_q,
                   t_connected, rq_pc, rq_id, rq_res, rx_id, waiter, deadlinePassed, wire,
                   server_alive, stdin_blocked, mgrVars, boVars, ixVars, extV>>

NextNotify ==
    \/ send_request_alloc(1)
    \/ send_request_send(1)
    \/ send_request_receive(1)
    \/ send_request_timeout(1)
    \/ clock_deadline(1)
    \/ handle_message
    \/ \E e \in BOOLEAN : server_respond(1, e)
    \/ server_notify

SpecNotify == InitNoReconnect /\ [][NextNotify]_vars

(***************************************************************************)
(* SpecLive: Spec with a server that may stop reading its stdin, under the *)
(* fairness of the tokio scheduler: every spawned health task and every    *)
(* caller that can take a step eventually takes one, and the subscriber    *)
(* keeps draining the event channel. The server is not obliged to read.    *)
(***************************************************************************)
HealthTask(r) ==
    \/ health_tick(r)
    \/ health_lock_client(r)
    \/ health_ping(r)
    \/ health_ok(r)
    \/ health_ok_emit(r)
    \/ health_err(r)
    \/ health_err_emit(r)
    \/ reconnect_loop_head(r)
    \/ reconnect_max_mark(r)
    \/ reconnect_max_emit(r)
    \/ reconnect_sleep(r)
    \/ reconnect_server_disconnect(r)
    \/ reconnect_server_connect(r)
    \/ reconnect_server_swap(r)
    \/ reconnect_server_emit(r)
    \/ reconnect_ok_mark(r)
    \/ reconnect_ok_emit(r)
    \/ reconnect_failed(r)

\* the steps of a start_server or stop_server call after its first one
CallerTask(c) ==
    \/ start_server_connect(c)
    \/ \E s \in Servers : start_server_register(c, s)
    \/ start_server_insert(c)
    \/ start_server_emit_ready(c)
    \/ start_server_emit_tools(c)
    \/ stop_server_disconnect(c)
    \/ stop_server_mark(c)
    \/ stop_server_emit(c)

Fairness ==
    /\ \A r \in RuntimeIds : WF_vars(HealthTask(r))
    /\ \A c \in MainCallers : WF_vars(CallerTask(c))
    /\ WF_vars(SubscriberRecv)

NextLive ==
    \/ Next
    \/ \E b \in BOOLEAN : server_stdin(b)

SpecLive == Init /\ [][NextLive]_vars /\ Fairness


(***************************************************************************)
(* SpecBackoff: the backoff of one reconnection run in which every attempt *)
(* fails, for reconnect configurations with initial_backoff_ms below, at   *)
(* and above max_backoff_ms.                                               *)
(***************************************************************************)
\* one iteration of the loop of attempt_reconnection whose reconnect_server
\* fails: sleep(current_backoff), then the backoff grows
backoff_attempt ==
    /\ Len(bo_slept) < MaxSleeps
    /\ bo_slept' = Append(bo_slept, bo_current)
    /\ bo_current' = NextBackoff(bo_current, bo_config[2])
    /\ UNCHANGED <<bo_config, mgrVars, cliVars, ixVars, extV>>

InitBackoff == MgrInit /\ ~config.enabled /\ ClientInit /\ BackoffInit /\ IndexInit /\ ExtInit

NextBackoffRun == backoff_attempt

SpecBackoff == InitBackoff /\ [][NextBackoffRun]_vars

(***************************************************************************)
(* SpecIndex: the tool index under any sequence of register_server_tools   *)
(* and remove_server_tools calls, for server ids and tool names that are   *)
(* arbitrary strings.                                                      *)
(***************************************************************************)
\* the alias pattern mcp__{server_id}__{tool_name}
Alias(s, t) == "mcp__" \o s \o "__" \o t

ToolAlias(s, t) == [alias |-> Alias(s, t), server_id |-> s, original_name |-> t]

\* the tools of a listing that pass the allow list (empty: no restriction)
\* and the deny list (which always wins)
Permitted(tools, allow, deny) ==
    {t \in tools : (allow = {} \/ t \in allow) /\ t \notin deny}

\* ToolIndex::lookup: Option<ToolAlias>, as a sequence of at most one alias
lookup(a) == IF a \in DOMAIN ix_aliases THEN <<ix_aliases[a]>> ELSE <<>>

\* ToolIndex::all_aliases
all_aliases == {ix_aliases[a] : a \in DOMAIN ix_aliases}

\* ToolIndex::register_server_tools: each permitted tool is inserted under
\* its alias and the alias is added to the server's set
ToolIndex_register_server_tools(s, tools, allow, deny) ==
    LET new == Permitted(tools, allow, deny)
        newAliases == {Alias(s, t) : t \in new}
    IN /\ new # {}
       /\ ix_aliases' = [a \in (DOMAIN ix_aliases) \cup newAliases |->
                            IF a \in newAliases
                            THEN ToolAlias(s, CHOOSE t \in new : Alias(s, t) = a)
                            ELSE ix_aliases[a]]
       /\ ix_by_server' = [ix_by_server EXCEPT ![s] = @ \cup newAliases]
       /\ ix_registered' = [ix_registered EXCEPT ![s] = @ \cup new]
       /\ UNCHANGED <<mgrVars, cliVars, boVars, extV>>

\* ToolIndex::remove_server_tools: every alias in the server's set is dropped
ToolIndex_remove_server_tools(s) ==
    /\ ix_by_server[s] # {}
    /\ ix_aliases' = [a \in (DOMAIN ix_aliases) \ ix_by_server[s] |-> ix_aliases[a]]
    /\ ix_by_server' = [ix_by_server EXCEPT ![s] = {}]
    /\ ix_registered' = [ix_registered EXCEPT ![s] = {}]
    /\ ix_call' = <<>>
    /\ UNCHANGED <<mgrVars, cliVars, boVars, extV>>

\* McpServerConfig.allowed_tools / denied_tools of the index runs
IndexConfigs ==
    {[allowed_tools |-> allow, denied_tools |-> deny] :
        allow \in SUBSET IndexTools, deny \in {{}, {"read"}}}

\* start_server mutated to pass the two lists in the wrong order
manager_register_tools_SwappedLists(s, tools, cfg) ==
    /\ ToolIndex_register_server_tools(s, tools, cfg.denied_tools, cfg.allowed_tools)
    /\ ix_call' = <<[server_id |-> s, tools |-> tools, config |-> cfg]>>

\* start_server, the registration of the listed tools: the index gets the
\* server's allowed_tools and denied_tools
manager_register_tools(s, tools, cfg) ==
    /\ ToolIndex_register_server_tools(s, tools, cfg.allowed_tools, cfg.denied_tools)
    /\ ix_call' = <<[server_id |-> s, tools |-> tools, config |-> cfg]>>

NextIndex ==
    \/ \E s \in IndexServers, tools \in SUBSET IndexTools,
          allow \in SUBSET IndexTools, deny \in {{}, {"read"}} :
            ToolIndex_register_server_tools(s, tools, allow, deny) /\ UNCHANGED ix_call
    \/ \E s \in IndexServers : ToolIndex_remove_server_tools(s)

SpecIndex == InitNoReconnect /\ [][NextIndex]_vars

\* the servers the manager starts in the registration runs
RegisterServers == {"fs", "git"}

\* SpecRegister: the manager registers the listed tools of a started server
\* under the server's configuration, and removes them when it stops
NextRegister ==
    \/ \E s \in RegisterServers, tools \in SUBSET IndexTools, cfg \in IndexConfigs :
            manager_register_tools(s, tools, cfg)
    \/ \E s \in RegisterServers : ToolIndex_remove_server_tools(s)

SpecRegister == InitNoReconnect /\ [][NextRegister]_vars

(***************************************************************************)
(* SpecExec: one CompositeToolExecutor::execute call at a time, over a     *)
(* built-in executor that may return anything and the McpToolExecutor,     *)
(* while the manager registers and removes the tools of server fs.         *)
(***************************************************************************)
\* longest content list of a tools/call result
MaxContent == 2

\* ToolCall.function.name: a built-in tool, two MCP aliases, an unknown name
ExecNames == {"read_file", Alias("fs", "read"), Alias("fs", "write"), "nope"}

\* ToolCall.function.arguments: two spellings of one document, the empty
\* object, the empty string and a truncated document
ArgStrings == {"{\"q\":\"test\"}", " { \"q\" : \"test\" } ", "{}", "", "{\"q\":"}

ToolCalls == [name : ExecNames, arguments : ArgStrings]

\* serde_json::from_str::<Value>: the JSON value of a document (whitespace
\* around tokens is not part of the value), or an error
serde_json_from_str(str) ==
    CASE str = "{\"q\":\"test\"}"        -> [ok |-> TRUE, value |-> <<"object", <<"q", "test">>>>]
      [] str = " { \"q\" : \"test\" } "  -> [ok |-> TRUE, value |-> <<"object", <<"q", "test">>>>]
      [] str = "{}"                      -> [ok |-> TRUE, value |-> <<"object">>]
      [] OTHER                           -> [ok |-> FALSE, value |-> <<"error">>]

\* Result<ToolResult, ToolError>
OkResult(success, result) == [kind |-> "Ok", success |-> success, result |-> result]
ToolError(kind, msg) == [kind |-> kind, msg |-> msg]

\* what a built-in executor may return
BuiltinResults ==
    {OkResult(TRUE, "built-in output"), OkResult(FALSE, "built-in failure"),
     ToolError("NotFound", "Tool not found"),
     ToolError("Execution", "io error"),
     ToolError("InvalidArguments", "missing field")}

\* McpContentItem
ContentItems ==
    {[type |-> "text", text |-> "out"],
     [type |-> "text", text |-> "permission denied"],
     [type |-> "image", data |-> "QUJD", mime_type |-> "image/png"],
     [type |-> "resource", uri |-> "file:///a", text |-> <<"body">>],
     [type |-> "resource", uri |-> "file:///b", text |-> <<>>]}

ContentLists == UNION {[1..n -> ContentItems] : n \in 0..MaxContent}

\* what manager.call_tool may return: McpCallResult or McpError
ManagerResults ==
    {[kind |-> "Ok", is_error |-> e, content |-> c] : e \in BOOLEAN, c \in ContentLists}
    \cup {[kind |-> "ServerNotFound", arg |-> "fs"],
          [kind |-> "ToolNotFound", arg |-> "read"],
          [kind |-> "Timeout", arg |-> "Request timed out"]}

\* the closure of format_result_content: one content item as a string
format_item(item) ==
    CASE item.type = "text" -> item.text
      [] item.type = "image" ->
            "[Image: " \o item.mime_type \o " (" \o ToString(Len(item.data)) \o " bytes)]"
      [] item.type = "resource" ->
            IF item.text # <<>>
            THEN "[Resource " \o item.uri \o "]: " \o item.text[1]
            ELSE "[Resource " \o item.uri \o "]"

\* [String]::join
RECURSIVE join(_, _)
join(strs, sep) ==
    IF strs = <<>> THEN ""
    ELSE IF Len(strs) = 1 THEN strs[1]
    ELSE strs[1] \o sep \o join(Tail(strs), sep)

\* McpToolExecutor::format_result_content
format_result_content(content) ==
    join([i \in 1..Len(content) |-> format_item(content[i])], "\n")

\* CompositeToolExecutor::execute is called; it calls builtin.execute
composite_execute(call) ==
    /\ ex_pc \in {"idle", "done"}
    /\ ex_pc' = "builtin"
    /\ ex_call' = call
    /\ ex_builtin_calls' = 1
    /\ ex_mcp_calls' = 0
    /\ ex_manager_calls' = 0
    /\ ex_builtin_res' = NoResult
    /\ ex_alias' = NoResult
    /\ ex_mgr_res' = NoResult
    /\ ex_mcp_res' = NoResult
    /\ ex_res' = NoResult
    /\ UNCHANGED notExV

\* the match mutated to fall through to MCP on every error
composite_match_AnyError(r) ==
    /\ ex_pc = "builtin"
    /\ ex_builtin_res' = r
    /\ IF r.kind = "Ok"
       THEN ex_res' = r /\ ex_pc' = "done" /\ UNCHANGED ex_mcp_calls
       ELSE ex_pc' = "mcp_lookup" /\ ex_mcp_calls' = ex_mcp_calls + 1 /\ UNCHANGED ex_res
    /\ UNCHANGED <<ex_call, ex_alias, ex_mgr_res, ex_mcp_res, ex_builtin_calls,
                   ex_manager_calls, notExV>>

\* builtin.execute returns r: Ok and every error but NotFound are returned,
\* NotFound falls through to mcp.execute
composite_match(r) ==
    /\ ex_pc = "builtin"
    /\ ex_builtin_res' = r
    /\ IF r.kind = "Ok"
       THEN ex_res' = r /\ ex_pc' = "done" /\ UNCHANGED ex_mcp_calls
       ELSE IF r.kind = "NotFound"
       THEN ex_pc' = "mcp_lookup" /\ ex_mcp_calls' = ex_mcp_calls + 1 /\ UNCHANGED ex_res
       ELSE ex_res' = r /\ ex_pc' = "done" /\ UNCHANGED ex_mcp_calls
    /\ UNCHANGED <<ex_call, ex_alias, ex_mgr_res, ex_mcp_res, ex_builtin_calls,
                   ex_manager_calls, notExV>>

\* McpToolExecutor::execute mutated to parse the arguments before the lookup
mcp_execute_lookup_ParseFirst ==
    /\ ex_pc = "mcp_lookup"
    /\ IF ~serde_json_from_str(ex_call.arguments).ok
       THEN /\ ex_mcp_res' = ToolError("InvalidArguments", "Invalid JSON")
            /\ ex_pc' = "mcp_return"
            /\ UNCHANGED ex_alias
       ELSE IF lookup(ex_call.name) = <<>>
       THEN /\ ex_mcp_res' = ToolError("NotFound",
                                       "MCP tool '" \o ex_call.name \o "' not found")
            /\ ex_pc' = "mcp_return"
            /\ UNCHANGED ex_alias
       ELSE /\ ex_alias' = lookup(ex_call.name)[1]
            /\ ex_pc' = "mcp_parse"
            /\ UNCHANGED ex_mcp_res
    /\ UNCHANGED <<ex_call, ex_builtin_res, ex_mgr_res, ex_res, ex_builtin_calls,
                   ex_mcp_calls, ex_manager_calls, notExV>>

\* McpToolExecutor::execute, the lookup of the alias
mcp_execute_lookup ==
    /\ ex_pc = "mcp_lookup"
    /\ IF lookup(ex_call.name) = <<>>
       THEN /\ ex_mcp_res' = ToolError("NotFound",
                                       "MCP tool '" \o ex_call.name \o "' not found")
            /\ ex_pc' = "mcp_return"
            /\ UNCHANGED ex_alias
       ELSE /\ ex_alias' = lookup(ex_call.name)[1]
            /\ ex_pc' = "mcp_parse"
            /\ UNCHANGED ex_mcp_res
    /\ UNCHANGED <<ex_call, ex_builtin_res, ex_mgr_res, ex_res, ex_builtin_calls,
                   ex_mcp_calls, ex_manager_calls, notExV>>

\* McpToolExecutor::execute, the parsing of the arguments; valid arguments
\* are dispatched to manager.call_tool
mcp_execute_parse ==
    /\ ex_pc = "mcp_parse"
    /\ IF ~serde_json_from_str(ex_call.arguments).ok
       THEN /\ ex_mcp_res' = ToolError("InvalidArguments", "Invalid JSON")
            /\ ex_pc' = "mcp_return"
            /\ UNCHANGED ex_manager_calls
       ELSE /\ ex_pc' = "mcp_call"
            /\ ex_manager_calls' = ex_manager_calls + 1
            /\ UNCHANGED ex_mcp_res
    /\ UNCHANGED <<ex_call, ex_builtin_res, ex_alias, ex_mgr_res, ex_res, ex_builtin_calls,
                   ex_mcp_calls, notExV>>

\* the match on the result mutated to raise a ToolError for is_error
mcp_execute_result_ErrorRaised(m) ==
    IF m.kind = "Ok"
    THEN IF m.is_error
         THEN ToolError("Execution", format_result_content(m.content))
         ELSE OkResult(TRUE, format_result_content(m.content))
    ELSE ToolError("Execution", "MCP error: " \o m.arg)

\* McpToolExecutor::execute, the match on what manager.call_tool returned
mcp_execute_result(m) ==
    IF m.kind = "Ok"
    THEN IF m.is_error
         THEN OkResult(FALSE, format_result_content(m.content))
         ELSE OkResult(TRUE, format_result_content(m.content))
    ELSE IF m.kind = "ServerNotFound"
    THEN ToolError("NotFound", "MCP server '" \o m.arg \o "' not found")
    ELSE IF m.kind = "ToolNotFound"
    THEN ToolError("NotFound", "Tool '" \o m.arg \o "' not found")
    ELSE ToolError("Execution", "MCP error: " \o m.arg)

\* manager.call_tool returns m
mcp_execute_call(m) ==
    /\ ex_pc = "mcp_call"
    /\ ex_mgr_res' = m
    /\ ex_mcp_res' = mcp_execute_result(m)
    /\ ex_pc' = "mcp_return"
    /\ UNCHANGED <<ex_call, ex_builtin_res, ex_alias, ex_res, ex_builtin_calls,
                   ex_mcp_calls, ex_manager_calls, notExV>>

\* CompositeToolExecutor::execute returns what mcp.execute returned
composite_return ==
    /\ ex_pc = "mcp_return"
    /\ ex_res' = ex_mcp_res
    /\ ex_pc' = "done"
    /\ UNCHANGED <<ex_call, ex_builtin_res, ex_alias, ex_mgr_res, ex_mcp_res,
                   ex_builtin_calls, ex_mcp_calls, ex_manager_calls, notExV>>

NextExec ==
    \/ \E call \in ToolCalls : composite_execute(call)
    \/ \E r \in BuiltinResults : composite_match(r)
    \/ mcp_execute_lookup
    \/ mcp_execute_parse
    \/ \E m \in ManagerResults : mcp_execute_call(m)
    \/ composite_return
    \/ \E tools \in SUBSET {"read", "write"} :
          ToolIndex_register_server_tools("fs", tools, {}, {}) /\ UNCHANGED ix_call
    \/ ToolIndex_remove_server_tools("fs")

SpecExec == InitNoReconnect /\ [][NextExec]_vars

(***************************************************************************)
(* SpecSse: one SseTransport, the task that connect spawns on the event    *)
(* stream, and a caller that sends, receives and disconnects.              *)
(***************************************************************************)
\* capacity of the inbound channel in the runs (mpsc::channel(100) in new)
SseChannelCap == 2

\* events one run of the stream delivers at most
MaxSseEvents == 3

\* SseConfig.url
SseUrl == "http://h/sse"

\* the URLs an endpoint event may announce
AnnouncedUrls == {"http://h/post?session=1", "http://h/message"}

\* str::trim_end_matches("/sse") on the configured URLs
trim_end_matches_sse(url) ==
    CASE url = "http://h/sse" -> "http://h"
      [] OTHER -> url

\* connect: the GET succeeds (the task is spawned on the stream and connected
\* is set) or fails with a Connection error
sse_connect(success) ==
    /\ sse_task = "none"
    /\ ~sse_connected
    /\ IF success
       THEN /\ sse_task' = "running"
            /\ sse_connected' = TRUE
            /\ sse_events' = 0
            /\ sse_recv' = "none"
       ELSE UNCHANGED <<sse_task, sse_connected, sse_events, sse_recv>>
    /\ UNCHANGED <<sse_endpoint_url, sse_chan, sse_announced, sse_post, notSseV>>

\* the task gets an endpoint event: the URL is logged
sse_task_endpoint(url) ==
    /\ sse_task = "running"
    /\ sse_events < MaxSseEvents
    /\ sse_events' = sse_events + 1
    /\ sse_announced' = <<url>>
    /\ UNCHANGED <<sse_connected, sse_endpoint_url, sse_task, sse_chan, sse_post,
                   sse_recv, notSseV>>

\* the task gets a message event (or an unnamed one): message_tx.send(data)
\* completes once the channel has room; it fails only without a receiver,
\* and the transport owns the receiver
sse_task_message(data) ==
    /\ sse_task = "running"
    /\ sse_events < MaxSseEvents
    /\ Len(sse_chan) < SseChannelCap
    /\ sse_events' = sse_events + 1
    /\ sse_chan' = Append(sse_chan, data)
    /\ UNCHANGED <<sse_connected, sse_endpoint_url, sse_task, sse_announced, sse_post,
                   sse_recv, notSseV>>

\* the stream returns an error or reaches its end: the task leaves its loop,
\* logs and finishes; the transport's own message_tx keeps the channel open
sse_task_ends ==
    /\ sse_task = "running"
    /\ sse_task' = "ended"
    /\ sse_recv' = "none"
    /\ UNCHANGED <<sse_connected, sse_endpoint_url, sse_chan, sse_events, sse_announced,
                   sse_post, notSseV>>

\* send on a connected transport: POST to the recorded endpoint, or to the
\* derived URL when endpoint_url is None
sse_send ==
    /\ sse_connected
    /\ LET post_url == IF sse_endpoint_url # <<>> THEN sse_endpoint_url[1]
                       ELSE trim_end_matches_sse(SseUrl) \o "/message"
       IN sse_post' = <<[url |-> post_url, announced |-> sse_announced]>>
    /\ UNCHANGED <<sse_connected, sse_endpoint_url, sse_task, sse_chan, sse_events,
                   sse_announced, sse_recv, notSseV>>

\* receive: Disconnected when not connected; else the next queued message,
\* or None after 100 ms without one (the channel is never closed while the
\* transport holds message_tx)
sse_receive ==
    /\ IF ~sse_connected
       THEN sse_recv' = "Disconnected" /\ UNCHANGED sse_chan
       ELSE IF sse_chan # <<>>
       THEN sse_recv' = "Some" /\ sse_chan' = Tail(sse_chan)
       ELSE sse_recv' = "None" /\ UNCHANGED sse_chan
    /\ UNCHANGED <<sse_connected, sse_endpoint_url, sse_task, sse_events, sse_announced,
                   sse_post, notSseV>>

\* disconnect: connected is cleared and the task is aborted
sse_disconnect ==
    /\ sse_connected
    /\ sse_connected' = FALSE
    /\ sse_task' = "none"
    /\ sse_announced' = <<>>
    /\ UNCHANGED <<sse_endpoint_url, sse_chan, sse_events, sse_post, sse_recv, notSseV>>

NextSse ==
    \/ \E success \in BOOLEAN : sse_connect(success)
    \/ \E url \in AnnouncedUrls : sse_task_endpoint(url)
    \/ \E data \in {"m1", "m2"} : sse_task_message(data)
    \/ sse_task_ends
    \/ sse_send
    \/ sse_receive
    \/ sse_disconnect

SpecSse == InitNoReconnect /\ [][NextSse]_vars

(***************************************************************************)
(* SpecLlm: chat_stream of the OpenAI and the Gemini provider against an   *)
(* upstream that answers with a status and, on success, an event stream.   *)
(***************************************************************************)
\* events of one upstream response, the terminating one included
MaxUpstream == 3

\* LLMChunk
Token(text) == [type |-> "Token", text |-> text]
ToolCallsChunk(calls) == [type |-> "ToolCalls", calls |-> calls]
Done == [type |-> "Done"]
StreamErr(kind) == [type |-> "Err", kind |-> kind]

\* agent_core::tools::ToolCall
ToolCall(id, name, arguments) ==
    [id |-> id, tool_type |-> "function", name |-> name, arguments |-> arguments]

\* statuses of the upstream response
HttpStatuses == {200, 401, 403, 429, 500}

\* reqwest::StatusCode::is_success
is_success(code) == code >= 200 /\ code < 300

\* data of the events of an OpenAI-compatible stream: a content delta, a
\* tool-call delta, a blank line, a broken document, and the terminator in
\* two spellings
OpenAIData ==
    {"{\"choices\":[{\"delta\":{\"content\":\"Hi\"}}]}",
     "{\"choices\":[{\"delta\":{\"tool_calls\":[{\"index\":0,\"id\":\"call_1\",\"function\":{\"name\":\"search\",\"arguments\":\"{\\\"q\\\":\\\"test\\\"}\"}}]}}]}",
     " ",
     "{not valid json}"}
OpenAITerminators == {"[DONE]", "  [DONE]  "}

\* data of the events of a Gemini stream: a text part, a functionCall part,
\* and the final candidate with finishReason STOP
GeminiData ==
    {"{\"candidates\":[{\"content\":{\"parts\":[{\"text\":\"Hi\"}]}}]}",
     "{\"candidates\":[{\"content\":{\"parts\":[{\"functionCall\":{\"name\":\"search\",\"args\":{\"q\":\"test\"}}}]}}]}"}
GeminiTerminators ==
    {"{\"candidates\":[{\"content\":{\"parts\":[]},\"finishReason\":\"STOP\"}]}"}

\* the event streams of a complete upstream response: deltas, then the
\* terminating event
Upstreams(data, terminators) ==
    UNION {{Append(body, t) : body \in [1..n -> data], t \in terminators} :
              n \in 0..(MaxUpstream - 1)}

\* str::trim(..).is_empty() on the data above
is_blank(data) == data \in {"", " "}

\* parse_openai_compat_sse_data_strict
parse_openai_compat_sse_data_strict(data) ==
    CASE data \in OpenAITerminators -> [ok |-> TRUE, chunk |-> Done]
      [] data = "{\"choices\":[{\"delta\":{\"content\":\"Hi\"}}]}" ->
            [ok |-> TRUE, chunk |-> Token("Hi")]
      [] data = "{\"choices\":[{\"delta\":{\"tool_calls\":[{\"index\":0,\"id\":\"call_1\",\"function\":{\"name\":\"search\",\"arguments\":\"{\\\"q\\\":\\\"test\\\"}\"}}]}}]}" ->
            [ok |-> TRUE,
             chunk |-> ToolCallsChunk(<<ToolCall("call_1", "search", "{\"q\":\"test\"}")>>)]
      [] OTHER -> [ok |-> FALSE, chunk |-> StreamErr("Stream")]

\* parse_gemini_sse_event
parse_gemini_sse_event(data) ==
    CASE data \in GeminiTerminators -> [ok |-> TRUE, chunk |-> <<Done>>]
      [] data = "{\"candidates\":[{\"content\":{\"parts\":[{\"text\":\"Hi\"}]}}]}" ->
            [ok |-> TRUE, chunk |-> <<Token("Hi")>>]
      [] data = "{\"candidates\":[{\"content\":{\"parts\":[{\"functionCall\":{\"name\":\"search\",\"args\":{\"q\":\"test\"}}}]}}]}" ->
            [ok |-> TRUE,
             chunk |-> <<ToolCallsChunk(<<ToolCall("gemini_call_0", "search", "{\"q\":\"test\"}")>>)>>]
      [] OTHER -> [ok |-> FALSE, chunk |-> <<StreamErr("Stream")>>]

\* the closure OpenAIProvider::chat_stream gives to llm_stream_from_sse:
\* Result<Option<LLMChunk>>; blank data and Done give Ok(None)
openai_handler(data) ==
    IF is_blank(data) THEN [ok |-> TRUE, chunk |-> <<>>]
    ELSE LET chunk == parse_openai_compat_sse_data_strict(data)
         IN IF ~chunk.ok THEN [ok |-> FALSE, chunk |-> <<chunk.chunk>>]
            ELSE IF chunk.chunk = Done THEN [ok |-> TRUE, chunk |-> <<>>]
            ELSE [ok |-> TRUE, chunk |-> <<chunk.chunk>>]

\* the closure GeminiProvider::chat_stream gives to llm_stream_from_sse
gemini_handler(data) == parse_gemini_sse_event(data)

\* OpenAIProvider::chat_stream, a response that is not a success
openai_status_error(code) ==
    [kind |-> "Api", msg |-> "HTTP " \o ToString(code)]

\* GeminiProvider::chat_stream, a response that is not a success
gemini_status_error(code) ==
    IF code = 401 \/ code = 403
    THEN [kind |-> "Auth",
          msg |-> "Gemini authentication failed. Please check your API key."]
    ELSE [kind |-> "Api", msg |-> "Gemini API error: HTTP " \o ToString(code)]

\* OpenAIProvider::chat_stream: the request is sent and the response arrives
openai_chat_stream(code, events) ==
    /\ llm_pc \in {"idle", "failed", "ended"}
    /\ llm_provider' = "openai"
    /\ llm_status' = code
    /\ llm_out' = <<>>
    /\ IF ~is_success(code)
       THEN llm_res' = openai_status_error(code) /\ llm_pc' = "failed" /\ llm_sse' = <<>>
       ELSE llm_res' = [kind |-> "Ok"] /\ llm_pc' = "streaming" /\ llm_sse' = events
    /\ UNCHANGED notLlmV

\* GeminiProvider::chat_stream: the request is sent and the response arrives
gemini_chat_stream(code, events) ==
    /\ llm_pc \in {"idle", "failed", "ended"}
    /\ llm_provider' = "gemini"
    /\ llm_status' = code
    /\ llm_out' = <<>>
    /\ IF ~is_success(code)
       THEN llm_res' = gemini_status_error(code) /\ llm_pc' = "failed" /\ llm_sse' = <<>>
       ELSE llm_res' = [kind |-> "Ok"] /\ llm_pc' = "streaming" /\ llm_sse' = events
    /\ UNCHANGED notLlmV

\* llm_stream_from_sse, one poll of the stream: the next event goes through
\* the provider's closure; Ok(Some(chunk)) and Err are yielded, Ok(None) is
\* skipped; the stream ends with the upstream's
llm_stream_next ==
    /\ llm_pc = "streaming"
    /\ IF llm_sse = <<>>
       THEN llm_pc' = "ended" /\ UNCHANGED <<llm_sse, llm_out>>
       ELSE LET r == IF llm_provider = "openai" THEN openai_handler(Head(llm_sse))
                     ELSE gemini_handler(Head(llm_sse))
            IN /\ llm_out' = llm_out \o r.chunk
               /\ llm_sse' = Tail(llm_sse)
               /\ UNCHANGED llm_pc
    /\ UNCHANGED <<llm_provider, llm_status, llm_res, notLlmV>>

NextLlm ==
    \/ \E code \in HttpStatuses, events \in Upstreams(OpenAIData, OpenAITerminators) :
          openai_chat_stream(code, events)
    \/ \E code \in HttpStatuses, events \in Upstreams(GeminiData, GeminiTerminators) :
          gemini_chat_stream(code, events)
    \/ llm_stream_next

SpecLlm == InitNoReconnect /\ [][NextLlm]_vars

(***************************************************************************)
(* SpecGemini: the Gemini-facing streaming endpoint re-encodes the items   *)
(* of a provider's LLMChunk stream as GeminiResponse events.               *)
(***************************************************************************)
\* items of one provider stream
MaxChunks == 3

\* the items a provider stream is made of: a token, tool calls whose
\* arguments are a document, a second spelling of it, the empty string, or a
\* truncated document, Done, and an error
StreamItems ==
    {Token("Hello"),
     ToolCallsChunk(<<ToolCall("call_1", "search", "{\"q\":\"test\"}")>>),
     ToolCallsChunk(<<ToolCall("call_2", "lookup", " { \"q\" : \"test\" } "),
                      ToolCall("call_3", "search", "")>>),
     ToolCallsChunk(<<ToolCall("call_4", "search", "{\"q\":")>>),
     Done,
     StreamErr("Stream")}

\* the streams of a provider: Done or an error, if any, is the last item
ProviderStreams ==
    {items \in UNION {[1..n -> StreamItems] : n \in 0..MaxChunks} :
        \A i \in 1..(Len(items) - 1) : items[i].type \in {"Token", "ToolCalls"}}

\* GeminiResponse with one candidate: one text part, one functionCall part,
\* no part and finishReason STOP; and the error the body stream yields
TextEvent(text) == [kind |-> "text", text |-> text]
FunctionCallEvent(name, args) == [kind |-> "functionCall", name |-> name, args |-> args]
FinalEvent == [kind |-> "final", finish_reason |-> "STOP"]
ErrorEvent == [kind |-> "error"]

\* serde_json::from_str(&tc.function.arguments).unwrap_or(empty object)
args_of(arguments) ==
    IF serde_json_from_str(arguments).ok
    THEN serde_json_from_str(arguments).value
    ELSE <<"object">>

\* the ToolCalls arm mutated to put only the first call of a chunk on the wire
function_call_events_FirstOnly(calls) ==
    IF calls = <<>> THEN <<>>
    ELSE <<FunctionCallEvent(calls[1].name, args_of(calls[1].arguments))>>

\* the ToolCalls arm: one event with one functionCall part per call, in order
function_call_events(calls) ==
    [i \in 1..Len(calls) |-> FunctionCallEvent(calls[i].name, args_of(calls[i].arguments))]

\* stream_generate_content: the provider's stream is created
stream_generate_content(items) ==
    /\ gem_pc \in {"idle", "closed"}
    /\ gem_pc' = "streaming"
    /\ gem_src' = items
    /\ gem_in' = items
    /\ gem_out' = <<>>
    /\ UNCHANGED notGemV

\* one turn of the loop of the body stream: the next item is re-encoded;
\* Done and an error end the body, and so does the end of the stream
gemini_stream_next ==
    /\ gem_pc = "streaming"
    /\ IF gem_in = <<>>
       THEN gem_pc' = "closed" /\ UNCHANGED <<gem_in, gem_out>>
       ELSE LET chunk == Head(gem_in)
            IN /\ gem_in' = Tail(gem_in)
               /\ CASE chunk.type = "Token" ->
                         gem_out' = Append(gem_out, TextEvent(chunk.text))
                         /\ UNCHANGED gem_pc
                    [] chunk.type = "ToolCalls" ->
                         gem_out' = gem_out \o function_call_events(chunk.calls)
                         /\ UNCHANGED gem_pc
                    [] chunk.type = "Done" ->
                         gem_out' = Append(gem_out, FinalEvent) /\ gem_pc' = "closed"
                    [] chunk.type = "Err" ->
                         gem_out' = Append(gem_out, ErrorEvent) /\ gem_pc' = "closed"
    /\ UNCHANGED <<gem_src, notGemV>>

NextGemini ==
    \/ \E items \in ProviderStreams : stream_generate_content(items)
    \/ gemini_stream_next

SpecGemini == InitNoReconnect /\ [][NextGemini]_vars

(***************************************************************************)
(* SpecGenerate: the non-streaming Gemini endpoint collects a provider's   *)
(* LLMChunk stream into one GeminiResponse.                                *)
(***************************************************************************)
\* GeminiPart with a text (None is the empty sequence) and no function call
TextPart(text) == [kind |-> "text", text |-> text]

\* generate_content: the provider's stream is created
generate_content(items) ==
    /\ gc_pc \in {"idle", "responded"}
    /\ gc_pc' = "collect"
    /\ gc_src' = items
    /\ gc_in' = items
    /\ gc_full_content' = ""
    /\ gc_tool_calls' = <<>>
    /\ gc_parts' = <<>>
    /\ gc_res' = "none"
    /\ UNCHANGED notGcV

\* the parts built after the loop: the text part, removed when there are
\* tool calls and no text, then one functionCall part per collected call
generate_content_parts(full_content, tool_calls) ==
    LET text == IF full_content = "" /\ tool_calls = <<>> THEN <<"">>
                ELSE IF full_content = "" THEN <<>>
                ELSE <<full_content>>
        first == <<TextPart(text)>>
    IN IF tool_calls = <<>> THEN first
       ELSE (IF text = <<>> \/ text = <<"">> THEN <<>> ELSE first)
            \o function_call_events(tool_calls[1])

\* one turn of `while let Some(chunk) = stream.next().await`; Done and the
\* end of the stream leave the loop and the response is built, an error
\* returns InternalError
generate_content_next ==
    /\ gc_pc = "collect"
    /\ IF gc_in = <<>> \/ Head(gc_in).type = "Done"
       THEN /\ gc_parts' = generate_content_parts(gc_full_content, gc_tool_calls)
            /\ gc_res' = "Ok"
            /\ gc_pc' = "responded"
            /\ UNCHANGED <<gc_in, gc_full_content, gc_tool_calls>>
       ELSE LET chunk == Head(gc_in)
            IN CASE chunk.type = "Token" ->
                      /\ gc_full_content' = gc_full_content \o chunk.text
                      /\ gc_in' = Tail(gc_in)
                      /\ UNCHANGED <<gc_pc, gc_tool_calls, gc_parts, gc_res>>
                 [] chunk.type = "ToolCalls" ->
                      /\ gc_tool_calls' = <<chunk.calls>>
                      /\ gc_in' = Tail(gc_in)
                      /\ UNCHANGED <<gc_pc, gc_full_content, gc_parts, gc_res>>
                 [] chunk.type = "Err" ->
                      /\ gc_res' = "InternalError"
                      /\ gc_pc' = "responded"
                      /\ UNCHANGED <<gc_in, gc_full_content, gc_tool_calls, gc_parts>>
    /\ UNCHANGED <<gc_src, notGcV>>

NextGenerate ==
    \/ \E items \in ProviderStreams : generate_content(items)
    \/ generate_content_next

SpecGenerate == InitNoReconnect /\ [][NextGenerate]_vars

(***************************************************************************)
(* SpecAnthropic: the Anthropic-facing messages endpoint re-encodes the    *)
(* items of a provider's LLMChunk stream as Anthropic events.              *)
(***************************************************************************)
\* the chunks of the streams of the endpoint's tests
AnthropicChunks ==
    {Token("OK"), Token(" there!"),
     ToolCallsChunk(<<ToolCall("call_1", "search", "{\"q\":\"test\"}")>>),
     ToolCallsChunk(<<ToolCall("tool_call_2", "lookup", "{\"id\":42}"),
                      ToolCall("call_3", "search", "")>>)}

\* the streams of a provider: chunks, then Done unless the stream just ends
AnthropicStreams ==
    LET bodies == UNION {[1..n -> AnthropicChunks] : n \in 0..(MaxChunks - 1)}
    IN bodies \cup {Append(b, Done) : b \in bodies}

\* one item of the body: `event: <name>` with its data
AnthropicEvent(name, data) == [event |-> name, data |-> data]

\* the line `data: [DONE]`, which has no event name
DoneLine == [event |-> "", data |-> [line |-> "data: [DONE]"]]

\* parse_sse_events of the tests: the names of the named events of a body
RECURSIVE parse_sse_events(_)
parse_sse_events(body) ==
    IF body = <<>> THEN <<>>
    ELSE IF Head(body) = DoneLine \/ Head(body).event = ""
    THEN parse_sse_events(Tail(body))
    ELSE <<Head(body).event>> \o parse_sse_events(Tail(body))

\* the events of one text token: the text block is started by the first one
text_events(text, started) ==
    (IF started THEN <<>>
     ELSE <<AnthropicEvent("content_block_start", [index |-> 0, type |-> "text"])>>)
    \o <<AnthropicEvent("content_block_delta",
                        [index |-> 0, type |-> "text_delta", text |-> text])>>

\* the events of the tool calls of one chunk: start, delta and stop per call
RECURSIVE tool_use_events(_, _)
tool_use_events(calls, i) ==
    IF calls = <<>> THEN <<>>
    ELSE <<AnthropicEvent("content_block_start",
                          [index |-> i, type |-> "tool_use", id |-> Head(calls).id,
                           name |-> Head(calls).name]),
           AnthropicEvent("content_block_delta",
                          [index |-> i, type |-> "input_json_delta",
                           partial_json |-> Head(calls).arguments]),
           AnthropicEvent("content_block_stop", [index |-> i])>>
         \o tool_use_events(Tail(calls), i + 1)

\* the end of the body mutated to leave out message_stop
terminate_events_NoStop(open) ==
    (IF open THEN <<AnthropicEvent("content_block_stop", [index |-> 0])>> ELSE <<>>)
    \o <<AnthropicEvent("message_delta", [stop_reason |-> "end_turn"]), DoneLine>>

\* the end of the body: a text block written last is closed, then
\* message_delta with stop_reason end_turn, message_stop and `data: [DONE]`
terminate_events(open) ==
    (IF open THEN <<AnthropicEvent("content_block_stop", [index |-> 0])>> ELSE <<>>)
    \o <<AnthropicEvent("message_delta", [stop_reason |-> "end_turn"]),
         AnthropicEvent("message_stop", [type |-> "message_stop"]),
         DoneLine>>

\* the messages endpoint with stream = true: the provider's stream is created
\* and message_start is written
anthropic_messages_stream(items) ==
    /\ ant_pc \in {"idle", "closed"}
    /\ ant_pc' = "streaming"
    /\ ant_src' = items
    /\ ant_in' = items
    /\ ant_out' = <<AnthropicEvent("message_start", [role |-> "assistant", type |-> "message"])>>
    /\ ant_text' = FALSE
    /\ ant_open' = FALSE
    /\ ant_index' = 1
    /\ UNCHANGED notAntV

\* one turn of the re-encoder: the next chunk is re-encoded; Done and the end
\* of the stream terminate the body
anthropic_stream_next ==
    /\ ant_pc = "streaming"
    /\ IF ant_in = <<>> \/ Head(ant_in).type = "Done"
       THEN /\ ant_out' = ant_out \o terminate_events(ant_open)
            /\ ant_pc' = "closed"
            /\ UNCHANGED <<ant_in, ant_text, ant_open, ant_index>>
       ELSE LET chunk == Head(ant_in)
            IN /\ ant_in' = Tail(ant_in)
               /\ UNCHANGED ant_pc
               /\ IF chunk.type = "Token"
                  THEN /\ ant_out' = ant_out \o text_events(chunk.text, ant_text)
                       /\ ant_text' = TRUE
                       /\ ant_open' = TRUE
                       /\ UNCHANGED ant_index
                  ELSE /\ ant_out' = ant_out \o tool_use_events(chunk.calls, ant_index)
                       /\ ant_open' = FALSE
                       /\ ant_index' = ant_index + Len(chunk.calls)
                       /\ UNCHANGED ant_text
    /\ UNCHANGED <<ant_src, notAntV>>

NextAnthropic ==
    \/ \E items \in AnthropicStreams : anthropic_messages_stream(items)
    \/ anthropic_stream_next

SpecAnthropic == InitNoReconnect /\ [][NextAnthropic]_vars

(***************************************************************************)
(* SpecWire: what start_server and reconnect_server send on the transport  *)
(* of the client they build, and what health check and call_tool send on   *)
(* the client stored in the runtime.                                       *)
(***************************************************************************)
\* transport.send of the client on transport t
WireSend(t, msg) == w_wire' = [w_wire EXCEPT ![t] = Append(@, msg)]

\* the operation returns res; its local client is dropped
WireReturn(res) ==
    /\ w_pc' = "idle"
    /\ w_op' = "none"
    /\ w_new' = 0
    /\ w_res' = res

\* start_server: contains_key, McpProtocolClient::new, client.connect().await?
wire_start_server ==
    /\ w_pc = "idle"
    /\ IF w_runtime # 0
       THEN /\ WireReturn("AlreadyRunning")
            /\ UNCHANGED <<w_next, w_wire, w_conn, w_runtime>>
       ELSE /\ w_next < MaxTransports
            /\ w_next' = w_next + 1
            /\ \/ /\ w_conn' = [w_conn EXCEPT ![w_next + 1] = TRUE]
                  /\ w_pc' = "initialize"
                  /\ w_op' = "start"
                  /\ w_new' = w_next + 1
                  /\ UNCHANGED w_res
               \/ /\ WireReturn("Err")
                  /\ UNCHANGED w_conn
            /\ UNCHANGED <<w_wire, w_runtime>>
    /\ UNCHANGED notWV

\* reconnect_server: the existing client is disconnected, then
\* McpProtocolClient::new and client.connect().await?
wire_reconnect_server ==
    /\ w_pc = "idle"
    /\ w_runtime # 0
    /\ w_next < MaxTransports
    /\ w_next' = w_next + 1
    /\ \/ /\ w_conn' = [w_conn EXCEPT ![w_runtime] = FALSE, ![w_next + 1] = TRUE]
          /\ w_pc' = "initialize"
          /\ w_op' = "reconnect"
          /\ w_new' = w_next + 1
          /\ UNCHANGED w_res
       \/ /\ w_conn' = [w_conn EXCEPT ![w_runtime] = FALSE]
          /\ WireReturn("Err")
    /\ UNCHANGED <<w_wire, w_runtime, notWV>>

\* initialize: send_request("initialize") writes the request; a failed
\* transport.send returns through `?`
initialize_send ==
    /\ w_pc = "initialize"
    /\ \/ /\ WireSend(w_new, "initialize")
          /\ w_pc' = "initialize_wait"
          /\ UNCHANGED <<w_op, w_new, w_res>>
       \/ /\ WireReturn("Err")
          /\ UNCHANGED w_wire
    /\ UNCHANGED <<w_next, w_conn, w_runtime, notWV>>

\* the outcomes of the wait for a response: a result, a JSON-RPC error, a
\* response without result, the timeout, the waiter dropped
ResponseOutcomes == {"result", "error", "missing_result", "timeout", "disconnected"}

\* mutant: initialize goes on to the notification whatever the outcome was
initialize_receive_AnyOutcome(outcome) ==
    /\ w_pc = "initialize_wait"
    /\ IF outcome = "result" THEN WireSend(w_new, "initialize_response") ELSE UNCHANGED w_wire
    /\ w_pc' = "initialized"
    /\ UNCHANGED <<w_op, w_new, w_res>>
    /\ UNCHANGED <<w_next, w_conn, w_runtime, notWV>>

\* initialize: send_request(..).await? and response.result.ok_or_else(..)?
initialize_receive(outcome) ==
    /\ w_pc = "initialize_wait"
    /\ IF outcome = "result"
       THEN /\ WireSend(w_new, "initialize_response")
            /\ w_pc' = "initialized"
            /\ UNCHANGED <<w_op, w_new, w_res>>
       ELSE /\ WireReturn("Err")
            /\ UNCHANGED w_wire
    /\ UNCHANGED <<w_next, w_conn, w_runtime, notWV>>

\* initialize: the notifications/initialized notification is written
initialize_notify ==
    /\ w_pc = "initialized"
    /\ \/ /\ WireSend(w_new, "notifications/initialized")
          /\ w_pc' = "list_tools"
          /\ UNCHANGED <<w_op, w_new, w_res>>
       \/ /\ WireReturn("Err")
          /\ UNCHANGED w_wire
    /\ UNCHANGED <<w_next, w_conn, w_runtime, notWV>>

\* list_tools: send_request("tools/list") writes the request
list_tools_send ==
    /\ w_pc = "list_tools"
    /\ \/ /\ WireSend(w_new, "tools/list")
          /\ w_pc' = "list_tools_wait"
          /\ UNCHANGED <<w_op, w_new, w_res>>
       \/ /\ WireReturn("Err")
          /\ UNCHANGED w_wire
    /\ UNCHANGED <<w_next, w_conn, w_runtime, notWV>>

\* list_tools: send_request(..).await? and response.result.ok_or_else(..)?
list_tools_receive(outcome) ==
    /\ w_pc = "list_tools_wait"
    /\ IF outcome = "result"
       THEN /\ WireSend(w_new, "tools/list_response")
            /\ w_pc' = "store"
            /\ UNCHANGED <<w_op, w_new, w_res>>
       ELSE /\ WireReturn("Err")
            /\ UNCHANGED w_wire
    /\ UNCHANGED <<w_next, w_conn, w_runtime, notWV>>

\* start_server: the runtime with the client is created and inserted;
\* reconnect_server: *client_lock = client
wire_store_client ==
    /\ w_pc = "store"
    /\ w_runtime' = w_new
    /\ WireReturn("Ok")
    /\ UNCHANGED <<w_next, w_wire, w_conn, notWV>>

\* how many pings and tool calls transport t has carried
Traffic(t) == Cardinality({i \in 1..Len(w_wire[t]) : w_wire[t][i] \in {"ping", "tools/call"}})

\* the health task's ping and a caller's call_tool: runtime.client.read(),
\* then the request is written if the client's transport is connected
wire_runtime_request(method) ==
    /\ w_runtime # 0
    /\ w_conn[w_runtime]
    /\ Traffic(w_runtime) < MaxTraffic
    /\ WireSend(w_runtime, method)
    /\ UNCHANGED <<w_pc, w_op, w_new, w_next, w_conn, w_runtime, w_res, notWV>>

\* stop_server: the runtime is removed and its client disconnected
wire_stop_server ==
    /\ w_pc = "idle"
    /\ w_runtime # 0
    /\ w_conn' = [w_conn EXCEPT ![w_runtime] = FALSE]
    /\ w_runtime' = 0
    /\ w_res' = "Ok"
    /\ UNCHANGED <<w_pc, w_op, w_new, w_next, w_wire, notWV>>

NextWire ==
    \/ wire_start_server
    \/ wire_reconnect_server
    \/ initialize_send
    \/ \E outcome \in ResponseOutcomes : initialize_receive(outcome)
    \/ initialize_notify
    \/ list_tools_send
    \/ \E outcome \in ResponseOutcomes : list_tools_receive(outcome)
    \/ wire_store_client
    \/ \E method \in {"ping", "tools/call"} : wire_runtime_request(method)
    \/ wire_stop_server

SpecWire == InitNoReconnect /\ [][NextWire]_vars

(***************************************************************************)
(* SpecStdio: StdioTransport::receive on the stdout of a server that       *)
(* writes newline-terminated lines, some bytes at a time.                  *)
(***************************************************************************)
Newline == "\n"
LineBytes == {"a", "b"}

\* the complete lines of a byte stream; cur is the line being collected
RECURSIVE LinesOf(_, _)
LinesOf(bytes, cur) ==
    IF bytes = <<>> THEN <<>>
    ELSE IF Head(bytes) = Newline THEN <<cur>> \o LinesOf(Tail(bytes), "")
    ELSE LinesOf(Tail(bytes), cur \o Head(bytes))

\* the last byte written; the start of the stream counts as a line's start
LastByte == IF st_stream = <<>> THEN Newline ELSE st_stream[Len(st_stream)]

\* the server writes one byte; a line holds one JSON document, so a newline
\* follows at least one other byte
server_write(byte) ==
    /\ ~st_eof
    /\ Len(st_stream) < MaxBytes
    /\ byte = Newline => LastByte # Newline
    /\ st_stream' = Append(st_stream, byte)
    /\ st_pipe' = Append(st_pipe, byte)
    /\ UNCHANGED <<st_eof, st_pc, st_line, st_out, st_res, notStV>>

\* the server closes its stdout after a complete line
server_close ==
    /\ ~st_eof
    /\ LastByte = Newline
    /\ st_eof' = TRUE
    /\ UNCHANGED <<st_stream, st_pipe, st_pc, st_line, st_out, st_res, notStV>>

\* receive: stdout.lock().await, let mut line = String::new(), and the
\* timeout around read_line starts
stdio_receive_begin ==
    /\ st_pc = "idle"
    /\ st_pc' = "read_line"
    /\ st_line' = ""
    /\ UNCHANGED <<st_stream, st_pipe, st_eof, st_out, st_res, notStV>>

\* the index of the first newline of the pipe (0 = none)
FirstNewline ==
    IF \E i \in 1..Len(st_pipe) : st_pipe[i] = Newline
    THEN CHOOSE i \in 1..Len(st_pipe) :
            st_pipe[i] = Newline /\ \A j \in 1..(i - 1) : st_pipe[j] # Newline
    ELSE 0

\* the bytes of a sequence as one string
RECURSIVE Concat(_)
Concat(bytes) == IF bytes = <<>> THEN "" ELSE Head(bytes) \o Concat(Tail(bytes))

\* receive returns res; the local line is dropped
StdioReturn(res) ==
    /\ st_pc' = "idle"
    /\ st_line' = ""
    /\ st_res' = res

\* the arm Err(_) of the match: the 100 ms have passed before read_line
\* completed; Ok(None) is returned and the future of read_line is dropped
\* with the bytes it has consumed
stdio_receive_timeout ==
    /\ st_pc = "read_line"
    /\ StdioReturn("None")
    /\ UNCHANGED <<st_stream, st_pipe, st_eof, st_out, notStV>>

\* read_line is polled with bytes in the pipe: it consumes them up to and
\* including the first newline and completes there (arm Ok(Ok(_))), else
\* it stays pending with the bytes appended to line
stdio_read_line ==
    /\ st_pc = "read_line"
    /\ st_pipe # <<>>
    /\ LET n == FirstNewline IN
       IF n = 0
       THEN /\ st_line' = st_line \o Concat(st_pipe)
            /\ st_pipe' = <<>>
            /\ UNCHANGED <<st_pc, st_out, st_res>>
       ELSE LET line == st_line \o Concat(SubSeq(st_pipe, 1, n - 1))
            IN /\ st_pipe' = SubSeq(st_pipe, n + 1, Len(st_pipe))
               /\ IF line = ""
                  THEN /\ StdioReturn("None")
                       /\ UNCHANGED st_out
                  ELSE /\ StdioReturn("Some")
                       /\ st_out' = Append(st_out, line)
    /\ UNCHANGED <<st_stream, st_eof, notStV>>

\* read_line is polled at the end of the stream: Ok(0) is EOF and gives
\* Disconnected (arm Ok(Ok(0)))
stdio_read_eof ==
    /\ st_pc = "read_line"
    /\ st_pipe = <<>>
    /\ st_eof
    /\ IF st_line = ""
       THEN /\ StdioReturn("Disconnected")
            /\ UNCHANGED st_out
       ELSE /\ st_out' = Append(st_out, st_line)
            /\ StdioReturn("Some")
    /\ UNCHANGED <<st_stream, st_pipe, st_eof, notStV>>

NextStdio ==
    \/ \E byte \in LineBytes \cup {Newline} : server_write(byte)
    \/ server_close
    \/ stdio_receive_begin
    \/ stdio_receive_timeout
    \/ stdio_read_line
    \/ stdio_read_eof

SpecStdio == InitNoReconnect /\ [][NextStdio]_vars

(***************************************************************************)
(* SpecChat: chat requests for one session id, handled by the tasks of the *)
(* HTTP server, on the sessions map and the session storage.               *)
(***************************************************************************)
\* agent_core::Message::system and Message::user; the user messages of the
\* requests are numbered
SystemMessage(prompt) == [role |-> "System", content |-> prompt]
UserMessage(n) == [role |-> "User", content |-> ToString(n)]

\* the ChatRequest bodies: system_prompt and model may be blank
ChatPrompts == {"", "be brief"}
ChatModels == {"", "m"}

\* build_enhanced_system_prompt without enhancement and workspace: a blank
\* prompt is replaced by the default base prompt
build_enhanced_system_prompt(prompt) == IF prompt = "" THEN "DEFAULT_BASE_PROMPT" ELSE prompt

\* messages.retain(not System)
RECURSIVE retain_non_system(_)
retain_non_system(messages) ==
    IF messages = <<>> THEN <<>>
    ELSE (IF Head(messages).role = "System" THEN <<>> ELSE <<Head(messages)>>)
         \o retain_non_system(Tail(messages))

\* upsert_system_prompt_message: retain, then insert at index 0
upsert_system_prompt_message(messages, system_prompt) ==
    <<SystemMessage(system_prompt)>> \o retain_non_system(messages)

\* Session::add_message
add_message(messages, message) == Append(messages, message)

\* the handler returns a response; its locals are dropped
ChatReturn(h, res) ==
    /\ ch_pc' = [ch_pc EXCEPT ![h] = "idle"]
    /\ ch_req' = [ch_req EXCEPT ![h] = NoRequest]
    /\ ch_session' = [ch_session EXCEPT ![h] = <<>>]
    /\ ch_res' = [ch_res EXCEPT ![h] = res]

\* handler: the model is validated; sessions.read().await, get(..).cloned()
chat_handler(h, prompt, model) ==
    /\ ch_pc[h] = "idle"
    /\ ch_count < MaxChatRequests
    /\ ch_count' = ch_count + 1
    /\ IF model = ""
       THEN ChatReturn(h, "BadRequest")
       ELSE /\ ch_req' = [ch_req EXCEPT ![h] =
                  [message |-> ch_count + 1, system_prompt |-> prompt, model |-> model]]
            /\ ch_session' = [ch_session EXCEPT ![h] = ch_sessions]
            /\ ch_pc' = [ch_pc EXCEPT ![h] = IF ch_sessions = <<>> THEN "load" ELSE "update"]
            /\ UNCHANGED ch_res
    /\ UNCHANGED <<ch_sessions, ch_storage, notChV>>

\* handler: no session in memory: storage.load_session(..).await gives the
\* saved session, none (Session::new) or an error
chat_load_session(h) ==
    /\ ch_pc[h] = "load"
    /\ \/ /\ ch_session' = [ch_session EXCEPT ![h] =
                IF ch_storage = <<>> THEN <<<<>>>> ELSE ch_storage]
          /\ ch_pc' = [ch_pc EXCEPT ![h] = "update"]
          /\ UNCHANGED <<ch_req, ch_res>>
       \/ ChatReturn(h, "InternalServerError")
    /\ UNCHANGED <<ch_sessions, ch_storage, ch_count, notChV>>

\* handler: the system prompt is upserted, the user message is added, and
\* sessions.write().await, insert(session_id, session.clone())
chat_update(h) ==
    /\ ch_pc[h] = "update"
    /\ LET messages ==
             add_message(
                 upsert_system_prompt_message(
                     ch_session[h][1], build_enhanced_system_prompt(ch_req[h].system_prompt)),
                 UserMessage(ch_req[h].message))
       IN /\ ch_session' = [ch_session EXCEPT ![h] = <<messages>>]
          /\ ch_sessions' = <<messages>>
    /\ ch_pc' = [ch_pc EXCEPT ![h] = "save"]
    /\ UNCHANGED <<ch_storage, ch_req, ch_res, ch_count, notChV>>

\* handler: storage.save_session(&session).await, then Created
chat_save_session(h) ==
    /\ ch_pc[h] = "save"
    /\ \/ /\ ch_storage' = ch_session[h]
          /\ ChatReturn(h, "Created")
       \/ /\ ChatReturn(h, "InternalServerError")
          /\ UNCHANGED ch_storage
    /\ UNCHANGED <<ch_sessions, ch_count, notChV>>

NextChat ==
    \/ \E h \in ChatTasks, prompt \in ChatPrompts, model \in ChatModels :
          chat_handler(h, prompt, model)
    \/ \E h \in ChatTasks : chat_load_session(h)
    \/ \E h \in ChatTasks : chat_update(h)
    \/ \E h \in ChatTasks : chat_save_session(h)

SpecChat == InitNoReconnect /\ [][NextChat]_vars

(***************************************************************************)
(* SpecArtifact: cap_tool_result and retrieve_artifact of one              *)
(* ToolOutputManager, and the clock.                                       *)
(***************************************************************************)
\* max_inline_tokens of the manager
max_inline_tokens == 100

\* tool results with the token count the counter gives them
ArtifactResults ==
    {[text |-> "Small result", tokens |-> 3],
     [text |-> "xxxx", tokens |-> 250],
     [text |-> "yyyy", tokens |-> 250]}
ToolCallIds == {"call_1", "call_2"}

\* HeuristicTokenCounter::count_text
count_text(result) == result.tokens

\* store_artifact: the id is the tool call id and the clock's second
artifact_id(tool_call_id, now) == tool_call_id \o "_" \o ToString(now)

\* ArtifactRef
ArtifactRef(id, tool_call_id, tokens) ==
    [id |-> id, tool_call_id |-> tool_call_id, full_token_count |-> tokens]

\* retrieve_artifact: the content of <id>.txt, None when there is no file
retrieve_artifact(id) ==
    IF id \in DOMAIN art_files THEN <<art_files[id]>> ELSE <<>>

\* tokio::fs::write: the file is created or replaced
fs_write(files, id, content) ==
    [f \in DOMAIN files \cup {id} |-> IF f = id THEN content ELSE files[f]]

\* cap_tool_result: a result within the budget is returned as it is; a
\* larger one is stored by store_artifact (which may fail) and returned
\* capped with its ArtifactRef
cap_tool_result(tool_call_id, result) ==
    /\ art_calls < MaxCapCalls
    /\ art_calls' = art_calls + 1
    /\ IF count_text(result) <= max_inline_tokens
       THEN /\ art_ret' = [kind |-> "inline", text |-> result.text]
            /\ UNCHANGED <<art_files, art_refs>>
       ELSE \/ LET id == artifact_id(tool_call_id, art_clock)
                   ref == ArtifactRef(id, tool_call_id, count_text(result))
               IN /\ art_files' = fs_write(art_files, id, result.text)
                  /\ art_refs' = Append(art_refs, [ref |-> ref, full |-> result.text])
                  /\ art_ret' = [kind |-> "capped", artifact |-> ref]
            \/ /\ art_ret' = [kind |-> "io_error"]
               /\ UNCHANGED <<art_files, art_refs>>
    /\ UNCHANGED <<art_clock, notArtV>>

\* a second passes
clock_second ==
    /\ art_clock < MaxClock
    /\ art_clock' = art_clock + 1
    /\ UNCHANGED <<art_files, art_refs, art_ret, art_calls, notArtV>>

NextArtifact ==
    \/ \E id \in ToolCallIds, result \in ArtifactResults : cap_tool_result(id, result)
    \/ clock_second

SpecArtifact == InitNoReconnect /\ [][NextArtifact]_vars

(***************************************************************************)
(* Claims                                                                  *)
(***************************************************************************)
HealthRunning(r) == hpc[r] \notin {"none", "done"}
ReconnectPcs == {"rc_top", "rc_max_info", "rc_max_emit", "rc_sleep", "rs_disc",
                 "rs_connect", "rs_swap", "rs_emit", "rc_ok_info", "rc_ok_emit",
                 "rc_fail_info"}
AliasesOf(s) == {a \in index : a[1] = s}

\* C1: once stop_server of a runtime has returned, no event is sent on
\* behalf of that runtime's server any more.
C1_NoEventAfterStop ==
    \A r \in RuntimeIds : lateEv[r] = "none"

\* C2: from the return of stop_server(S) to the next start_server(S), S is
\* absent from the runtime map and the tool index holds no alias of S.
C2_StoppedStaysRemoved ==
    \A s \in Servers :
        stoppedSince[s] => runtimes[s] = 0 /\ AliasesOf(s) = {}

\* C3: a server in the runtime map whose runtime is not shut down has
\* exactly one health task running for its id.
C3_ExactlyOneHealthLoop ==
    \A s \in Servers :
        (runtimes[s] # 0 /\ ~shutdown[runtimes[s]]) =>
            Cardinality({r \in RuntimeIds : rtServer[r] = s /\ HealthRunning(r)}) = 1

\* C4: Error is terminal: while the runtime is not stopped, a status of
\* Error stays Error and the health task does not ping again.
C4_ErrorTerminal ==
    [][\A r \in RuntimeIds :
          (status[r] = "Error" /\ ~shutdown'[r]) =>
              (status'[r] = "Error" /\ hpc'[r] # "ping")]_vars

\* the log of a run in which n attempts failed and nothing else happened
FailedRun(n) == <<"Degraded">> \o [i \in 1..n |-> "failed"]

\* C5: with max_attempts = N > 0, status Error is set only after Degraded
\* and exactly N failed reconnect_server attempts of the same run, and the
\* Error event follows them.
C5_BoundedReconnect ==
    \A r \in RuntimeIds :
        /\ status[r] = "Error" =>
              /\ config.max_attempts > 0
              /\ runLog[r] \in {FailedRun(config.max_attempts),
                                Append(FailedRun(config.max_attempts), "Error")}
        /\ \A i \in 1..Len(runLog[r]) :
              runLog[r][i] = "Error" =>
                  /\ i = config.max_attempts + 2
                  /\ SubSeq(runLog[r], 1, i - 1) = FailedRun(config.max_attempts)

C5_Witness ==
    \E r \in RuntimeIds :
        /\ status[r] = "Error"
        /\ runLog[r] = Append(FailedRun(MaxAttempts), "Error")

\* C6: with max_attempts = 0 the reconnection loop never takes the
\* max-attempts exit and the status never becomes Error.
C6_UnlimitedNeverErrors ==
    config.max_attempts = 0 =>
        \A r \in RuntimeIds :
            /\ status[r] # "Error"
            /\ hpc[r] \notin {"rc_max_info", "rc_max_emit"}
            /\ "Error" \notin {runLog[r][i] : i \in 1..Len(runLog[r])}

C6_Witness ==
    /\ config.max_attempts = 0
    /\ \E r \in RuntimeIds :
          /\ attempt[r] = AttemptCap
          /\ hpc[r] = "rc_sleep"
          /\ runLog[r] = FailedRun(AttemptCap - 1)

\* C7: the backoff slept before attempt 1 is initial_backoff_ms and each
\* later one is min(2 * previous, max_backoff_ms).
C7_BackoffDoubles ==
    \A i \in 1..Len(bo_slept) :
        bo_slept[i] = IF i = 1 THEN bo_config[1]
                      ELSE Min(bo_slept[i - 1] * 2, bo_config[2])

\* C8: reconnecting is true exactly while the reconnection loop of the
\* runtime is running; every exit of the loop resets it.
C8_SingleReconnectRun ==
    \A r \in RuntimeIds : reconnecting[r] <=> hpc[r] \in ReconnectPcs

C8_Witness ==
    \E r \in RuntimeIds :
        /\ reconnecting[r]
        /\ hpc[r] = "rs_connect"
        /\ attempt[r] = 1
        /\ status[r] = "Degraded"

\* C9: a task that has reached an event send can always take it, also
\* when the event channel is full.
C9_EmitNeverBlocks ==
    /\ \A c \in Callers :
          /\ cpc[c] = "st_emit_ready" => ENABLED start_server_emit_ready(c)
          /\ cpc[c] = "st_emit_tools" => ENABLED start_server_emit_tools(c)
          /\ cpc[c] = "sp_emit" => ENABLED stop_server_emit(c)
          /\ cpc[c] = "ct_emit" => ENABLED call_tool_emit(c)
          /\ cpc[c] = "rf_emit" => ENABLED refresh_tools_emit(c)
    /\ \A r \in RuntimeIds :
          /\ hpc[r] = "ok_emit" => ENABLED health_ok_emit(r)
          /\ hpc[r] = "err_emit" => ENABLED health_err_emit(r)
          /\ hpc[r] = "rc_max_emit" => ENABLED reconnect_max_emit(r)
          /\ hpc[r] = "rs_emit" => ENABLED reconnect_server_emit(r)
          /\ hpc[r] = "rc_ok_emit" => ENABLED reconnect_ok_emit(r)

\* C10: a send_request call whose deadline has passed has returned or can
\* return by a step of its own.
C10_ReturnsAfterDeadline ==
    \A q \in Requests :
        (deadlinePassed[q] /\ rq_pc[q] \in {"send", "wait"}) =>
            ENABLED (\/ send_request_send(q)
                     \/ send_request_receive(q)
                     \/ send_request_timeout(q))

\* C11: once a send_request call has returned, by any path, no waiter for
\* its request id is left in the pending map.
C11_NoWaiterAfterReturn ==
    \A q \in Requests :
        rq_pc[q] = "done" => rq_id[q] \notin pending_requests

\* C12: request ids are distinct and allocated in increasing order from 1,
\* a call's waiter is resolved only by the response carrying the call's own
\* id, and a response whose id has no waiter resolves nothing.
C12_MatchedById ==
    /\ [](/\ \A q \in Requests : rx_id[q] # 0 => rx_id[q] = rq_id[q]
          /\ \A q \in Requests : rq_id[q] # 0 => rq_id[q] \in 1..(next_id - 1)
          /\ \A q1, q2 \in Requests :
                (q1 # q2 /\ rq_id[q1] # 0) => rq_id[q1] # rq_id[q2])
    /\ [][(/\ inbound # <<>>
           /\ inbound' = Tail(inbound)
           /\ Head(inbound).type = "response"
           /\ Head(inbound).id \notin pending_requests)
              => (waiter' = waiter /\ rx_id' = rx_id)]_vars

\* two calls in flight, both written, the later one answered first
C12_Witness ==
    \E q1, q2 \in Requests :
        /\ rq_id[q1] # 0
        /\ rq_id[q1] < rq_id[q2]
        /\ rq_pc[q1] = "wait" /\ waiter[q1] = "open"
        /\ rq_pc[q2] = "done" /\ rq_res[q2] = "Ok" /\ rx_id[q2] = rq_id[q2]

\* C13: a request is written to the transport at most once, and a call
\* that wrote its request and got no response has failed with Timeout,
\* after its deadline.
C13_SentOnceTimeout ==
    /\ \A i \in Requests : wire[i] <= 1
    /\ \A q \in Requests :
          (rq_pc[q] = "done" /\ rq_id[q] # 0 /\ wire[rq_id[q]] >= 1 /\ rx_id[q] = 0)
              => (rq_res[q] = "Timeout" /\ deadlinePassed[q])
    /\ \A q \in Requests : rq_res[q] = "Timeout" => rx_id[q] = 0

C13_Witness ==
    \E q \in Requests :
        /\ rq_pc[q] = "done"
        /\ rq_res[q] = "Timeout"
        /\ wire[rq_id[q]] = 1
        /\ rq_id[q] \notin pending_requests

\* C14: for a server in the runtime map, the tool names behind its index
\* aliases are the cached tool list of its runtime in every state, also
\* while a refresh_tools of the server is in progress.
C14_RefreshAtomic ==
    \A s \in Servers :
        runtimes[s] # 0 =>
            {a[2] : a \in AliasesOf(s)} = rtTools[runtimes[s]]

\* C15: once shutdown is set for a runtime, its health task, and with it
\* the reconnection loop the task runs, eventually ends.
C15_LoopsTerminate ==
    \A r \in RuntimeIds : shutdown[r] ~> ~HealthRunning(r)

\* C16: in the health task a failed ping sets Degraded and last_error and
\* then sends ServerStatusChanged{Degraded}; a successful ping of a Degraded
\* runtime sets Ready and sends one ServerStatusChanged{Ready}; a successful
\* ping of a runtime that is not Degraded changes no status and sends
\* nothing; with reconnect.enabled = false no reconnection is started.
C16_HealthTransitions ==
    [][\A r \in RuntimeIds :
          /\ (hpc[r] = "err_info" /\ hpc'[r] # "err_info") =>
                /\ status'[r] = "Degraded"
                /\ last_error'[r] = "ping"
                /\ hpc'[r] = "err_emit"
                /\ evQueued' = evQueued
          /\ (hpc[r] = "err_emit" /\ hpc'[r] # "err_emit") =>
                /\ evQueued' = Append(evQueued, McpEvent(r, "Degraded"))
                /\ hpc'[r] = IF config.enabled THEN "rc_top" ELSE "tick"
          /\ (hpc[r] = "ok_info" /\ hpc'[r] # "ok_info") =>
                IF status[r] = "Degraded"
                THEN /\ status'[r] = "Ready"
                     /\ hpc'[r] = "ok_emit"
                     /\ evQueued' = evQueued
                ELSE /\ hpc'[r] = "tick"
                     /\ UNCHANGED <<status, last_error, tool_count, evQueued>>
          /\ (hpc[r] = "ok_emit" /\ hpc'[r] # "ok_emit") =>
                /\ evQueued' = Append(evQueued, McpEvent(r, "Ready"))
                /\ status'[r] = "Ready"
                /\ hpc'[r] = "tick"
          /\ ~config.enabled =>
                (hpc'[r] \notin ReconnectPcs /\ ~reconnecting'[r])]_vars

\* a Degraded runtime without reconnection has recovered by a ping
C16_Witness ==
    \E r \in RuntimeIds :
        /\ ~config.enabled
        /\ status[r] = "Ready"
        /\ runLog[r] = <<"Degraded">>
        /\ hpc[r] = "tick"
        /\ evQueued # <<>>
        /\ evQueued[Len(evQueued)] = McpEvent(r, "Ready")

MisuseErrors == {"AlreadyRunning", "NotRunning", "ServerNotFound"}

\* C17: start_server proceeds only for an id absent from the runtime map
\* and returns AlreadyRunning for a present one; stop_server, call_tool and
\* refresh_tools proceed only for a present id and return NotRunning,
\* ServerNotFound for an absent one; a rejected call changes neither the
\* runtime map nor the tool index nor any runtime and sends no event.
C17_MisuseRejected ==
    [][\A c \in Callers :
          /\ (cpc[c] = "idle" /\ cpc'[c] = "st_connect") =>
                \E s \in Servers : runtimes[s] = 0
          /\ (cpc[c] = "idle" /\ cpc'[c] \in {"sp_client", "ct_client", "rf_client"}) =>
                \E s \in Servers : runtimes[s] # 0
          /\ (cpc[c] = "idle" /\ cpc'[c] = "idle" /\ cres'[c] # cres[c]) =>
                /\ cres'[c] \in MisuseErrors
                /\ cres'[c] = "AlreadyRunning" => \E s \in Servers : runtimes[s] # 0
                /\ cres'[c] \in {"NotRunning", "ServerNotFound"} =>
                      \E s \in Servers : runtimes[s] = 0
                /\ UNCHANGED <<mapV, flagV, infoV, toolV, lockV, evV, healthV>>]_vars

\* each rejection has been returned to some caller while the other kind of
\* caller was rejected too
C17_Witness ==
    /\ \E c \in Callers : cres[c] = "AlreadyRunning"
    /\ \E c \in Callers : cres[c] = "ServerNotFound"

\* C18: a call_tool whose RPC fails returns the error and sends no event;
\* one whose RPC returned a result sends exactly one ToolExecuted event,
\* with success = not is_error, and returns that result.
C18_ToolExecutedOnce ==
    [][\A c \in Callers :
          /\ (cpc[c] = "ct_rpc" /\ cpc'[c] # "ct_rpc") =>
                /\ evQueued' = evQueued
                /\ \/ cpc'[c] = "idle" /\ cres'[c] = "Err"
                   \/ cpc'[c] = "ct_emit" /\ cres'[c] \in {"Ok", "OkIsError"}
          /\ (cpc[c] = "ct_emit" /\ cpc'[c] # "ct_emit") =>
                /\ cpc'[c] = "idle"
                /\ cres'[c] = cres[c]
                /\ evQueued' = Append(evQueued,
                                      ToolExecuted(crt[c], cres[c] = "Ok"))]_vars

\* a call whose result had is_error set has returned; its event says failure
C18_Witness ==
    \E c \in Callers, r \in RuntimeIds :
        /\ cpc[c] = "idle"
        /\ cres[c] = "OkIsError"
        /\ evQueued # <<>>
        /\ evQueued[Len(evQueued)] = ToolExecuted(r, FALSE)

\* the (server_id, original_name) pairs registered and not removed
RegisteredPairs ==
    {p \in IndexServers \X IndexTools : p[2] \in ix_registered[p[1]]}

\* C19: two distinct registered (server_id, original_name) pairs never have
\* the same alias, and every alias of the index stands for exactly one
\* registered pair.
C19_AliasesUnique ==
    /\ \A p, q \in RegisteredPairs :
          p # q => Alias(p[1], p[2]) # Alias(q[1], q[2])
    /\ \A a \in DOMAIN ix_aliases :
          Cardinality({p \in RegisteredPairs : Alias(p[1], p[2]) = a}) = 1

\* C20: from register_server_tools(S, ..) to remove_server_tools(S), lookup
\* of each alias registered for S returns (S, original_name), whatever is
\* registered or removed for other servers.
C20_LookupStable ==
    \A p \in RegisteredPairs :
        lookup(Alias(p[1], p[2])) = <<ToolAlias(p[1], p[2])>>

\* the tools a register_server_tools call is to register, by the rule of
\* the allow list (empty: every tool) and the deny list
ExpectedTools(tools, allow, deny) ==
    (IF allow = {} THEN tools ELSE tools \cap allow) \ deny

C22_BuiltinFirst ==
    /\ ex_pc # "idle" => ex_builtin_calls = 1
    /\ ex_mcp_calls <= 1
    /\ ex_builtin_res.kind \in {"none", "Ok", "Execution", "InvalidArguments"}
          => ex_mcp_calls = 0
    /\ ex_pc = "done" =>
          /\ ex_builtin_res \in BuiltinResults
          /\ ex_builtin_res.kind # "NotFound" => ex_res = ex_builtin_res
          /\ ex_builtin_res.kind = "NotFound" =>
                /\ ex_mcp_calls = 1
                /\ ex_mcp_res # NoResult
                /\ ex_res = ex_mcp_res

\* a call fell through to MCP and returned the MCP executor's Ok result
C22_Witness ==
    /\ ex_pc = "done"
    /\ ex_builtin_res.kind = "NotFound"
    /\ ex_mcp_calls = 1
    /\ ex_res.kind = "Ok"
    /\ ex_res = ex_mcp_res

\* C23: when manager.call_tool returns a result with is_error = true,
\* McpToolExecutor::execute returns Ok(ToolResult) with success = false and
\* the flattened content as result, never a ToolError; with is_error = false
\* it returns success = true with the same flattening
C23_IsErrorIsAResult ==
    ex_mgr_res.kind = "Ok" =>
        /\ ex_mcp_res.kind = "Ok"
        /\ ex_mcp_res.success = ~ex_mgr_res.is_error
        /\ ex_mcp_res.result = format_result_content(ex_mgr_res.content)
        /\ ex_mgr_res.content = <<[type |-> "text", text |-> "permission denied"],
                                  [type |-> "image", data |-> "QUJD",
                                   mime_type |-> "image/png"]>>
              => ex_mcp_res.result = "permission denied\n[Image: image/png (4 bytes)]"
        /\ ex_mgr_res.content = <<[type |-> "resource", uri |-> "file:///a",
                                   text |-> <<"body">>]>>
              => ex_mcp_res.result = "[Resource file:///a]: body"
        /\ ex_mgr_res.content = <<>> => ex_mcp_res.result = ""

\* a tool reported an error in two content items and the call returned it
C23_Witness ==
    /\ ex_pc = "done"
    /\ ex_mgr_res.kind = "Ok"
    /\ ex_mgr_res.is_error
    /\ ex_mgr_res.content = <<[type |-> "text", text |-> "permission denied"],
                              [type |-> "image", data |-> "QUJD", mime_type |-> "image/png"]>>
    /\ ex_res = OkResult(FALSE, "permission denied\n[Image: image/png (4 bytes)]")

\* the lookup step of McpToolExecutor::execute
LookupStep == ex_pc = "mcp_lookup" /\ ex_pc' # "mcp_lookup"

\* C24: McpToolExecutor::execute resolves the alias before it parses the
\* arguments: a name the index does not know gives NotFound whatever the
\* arguments are, a known name with arguments that are not valid JSON gives
\* InvalidArguments, and in both cases nothing is dispatched to the manager
C24_LookupBeforeParse ==
    /\ [][LookupStep /\ lookup(ex_call.name) = <<>> =>
            /\ ex_mcp_res' = ToolError("NotFound",
                                       "MCP tool '" \o ex_call.name \o "' not found")
            /\ ex_pc' = "mcp_return"
            /\ ex_alias' = NoResult]_vars
    /\ [][LookupStep /\ lookup(ex_call.name) # <<>> =>
            ex_alias' = lookup(ex_call.name)[1] /\ ex_mcp_res' = NoResult]_vars
    /\ [](ex_mcp_res # NoResult /\ ex_alias = NoResult =>
            ex_mcp_res.kind = "NotFound" /\ ex_manager_calls = 0)
    /\ [](ex_mcp_res # NoResult /\ ex_alias # NoResult
            /\ ~serde_json_from_str(ex_call.arguments).ok =>
            ex_mcp_res.kind = "InvalidArguments" /\ ex_manager_calls = 0)
    /\ [](ex_manager_calls = 1 =>
            ex_alias # NoResult /\ serde_json_from_str(ex_call.arguments).ok)

\* a known alias was called with a truncated document
C24_Witness ==
    /\ ex_pc = "done"
    /\ ex_call = [name |-> Alias("fs", "read"), arguments |-> "{\"q\":"]
    /\ ex_alias = ToolAlias("fs", "read")
    /\ ex_res.kind = "InvalidArguments"
    /\ ex_manager_calls = 0

\* C25: once the stream has delivered an endpoint event, every later send
\* POSTs to the announced URL; the derived URL {url without /sse}/message is
\* used only while none has been announced
C25_PostsToAnnounced ==
    sse_post # <<>> =>
        IF sse_post[1].announced # <<>>
        THEN sse_post[1].url = sse_post[1].announced[1]
        ELSE sse_post[1].url = "http://h/message"

\* C26: when the producer task has ended, the transport is disconnected: a
\* later receive returns Disconnected instead of None, and is_connected is
\* false by then
C26_EndedMeansDisconnected ==
    sse_task = "ended" /\ sse_recv # "none" /\ sse_chan = <<>> =>
        sse_recv = "Disconnected" /\ ~sse_connected

\* the items of a stream that are Done
DoneCount(items) == Cardinality({i \in 1..Len(items) : items[i] = Done})

C28_AuthOrApi ==
    llm_pc = "failed" =>
        IF llm_status \in {401, 403}
        THEN llm_res.kind = "Auth"
        ELSE llm_res.kind = "Api"

\* the text and functionCall events of a body, in order
RECURSIVE ContentEvents(_)
ContentEvents(events) ==
    IF events = <<>> THEN <<>>
    ELSE IF Head(events).kind \in {"text", "functionCall"}
    THEN <<Head(events)>> \o ContentEvents(Tail(events))
    ELSE ContentEvents(Tail(events))

\* the items of a stream before its first Done or error item
RECURSIVE BeforeEnd(_)
BeforeEnd(items) ==
    IF items = <<>> \/ Head(items).type \in {"Done", "Err"} THEN <<>>
    ELSE <<Head(items)>> \o BeforeEnd(Tail(items))

\* the JSON value of a string: that of its document
DocumentValue(str) == serde_json_from_str(str).value

\* the JSON value of a string, the empty object when it holds no document
DocumentOrEmpty(str) ==
    CASE str \in {"{\"q\":\"test\"}", " { \"q\" : \"test\" } "} -> <<"object", <<"q", "test">>>>
      [] OTHER -> <<"object">>

\* the events the claim asks for: per item in order, a text event per Token
\* and per ToolCall a functionCall event with the call's name and the JSON
\* value of its arguments (lenient: the empty object without a document)
RECURSIVE CallEvents(_, _)
CallEvents(calls, lenient) ==
    IF calls = <<>> THEN <<>>
    ELSE <<[kind |-> "functionCall", name |-> Head(calls).name,
            args |-> IF lenient THEN DocumentOrEmpty(Head(calls).arguments)
                     ELSE DocumentValue(Head(calls).arguments)]>>
         \o CallEvents(Tail(calls), lenient)

RECURSIVE ClaimedEvents(_, _)
ClaimedEvents(items, lenient) ==
    IF items = <<>> THEN <<>>
    ELSE LET rest == ClaimedEvents(Tail(items), lenient)
         IN CASE Head(items).type = "Token" ->
                    <<[kind |-> "text", text |-> Head(items).text]>> \o rest
              [] Head(items).type = "ToolCalls" ->
                    CallEvents(Head(items).calls, lenient) \o rest
              [] OTHER -> rest

Occurrences(body, item) == Cardinality({i \in 1..Len(body) : body[i] = item})

\* how often an event name occurs in a body
NameCount(body, name) == Cardinality({i \in 1..Len(body) : body[i].event = name})

SuspendedInRpc == {"ct_rpc", "rf_rpc"}
SuspendedInSend == {"ct_emit", "rf_emit", "sp_emit", "st_emit_ready", "st_emit_tools"}

\* C31: no manager operation holds the guard of a runtime-map entry or the
\* write lock of a runtime's info across a suspension point (the wait for an
\* RPC, the send of an event); call_tool and refresh_tools have released the
\* map entry before they wait for the RPC
C31_NoGuardAcrossSuspension ==
    \A c \in Callers :
        cpc[c] \in SuspendedInRpc \cup SuspendedInSend =>
            /\ \A s \in Servers : c \notin mapRefs[s]
            /\ \A r \in RuntimeIds : infoW[r] # CallerProc(c)

\* the messages of a complete handshake, in wire order
Handshake ==
    <<"initialize", "initialize_response", "notifications/initialized",
      "tools/list", "tools/list_response">>

\* C32: on every new transport the wire order is initialize, its response,
\* notifications/initialized, tools/list; the notification is never sent
\* when initialize has failed or timed out, and no ping or tools/call is
\* sent on a transport before its tools/list has completed
C32_HandshakeOrder ==
    \A t \in Transports :
        LET w == w_wire[t]
        IN /\ \A i \in 1..Len(w) : i <= Len(Handshake) => w[i] = Handshake[i]
           /\ \A i \in 1..Len(w) : i > Len(Handshake) => w[i] \in {"ping", "tools/call"}

\* a reconnection's transport has carried the whole handshake and a ping
C32_Witness ==
    /\ w_runtime = 2
    /\ w_wire[1] # <<>>
    /\ Len(w_wire[2]) > Len(Handshake)
    /\ w_wire[2][Len(Handshake) + 1] = "ping"

\* a response to the request of call q has been written by the server and is
\* not yet read
ResponseArrived(q) == \E i \in 1..Len(inbound) :
    inbound[i].type = "response" /\ inbound[i].id = rq_id[q]

\* C33: the reader loop keeps resolving waiters for as long as the transport
\* is connected: while a call waits and its response has arrived, behind any
\* number of notifications none of which was drained, the reader task can
\* take its next message
C33_ReaderKeepsReading ==
    \A q \in Requests :
        (/\ rq_pc[q] = "wait"
         /\ waiter[q] = "open"
         /\ ResponseArrived(q)
         /\ message_handler = "running"
         /\ t_connected)
        => ENABLED handle_message

\* seq p is a prefix of seq s
IsPrefix(p, s) == Len(p) <= Len(s) /\ \A i \in 1..Len(p) : p[i] = s[i]

\* C34: every newline-terminated line the server writes to stdout is
\* returned by receive exactly once, intact and in order, whatever the
\* timing of its bytes relative to the read deadline: the lines returned are
\* always the first lines written, and once every byte is consumed and no
\* call is reading they are all of them
C34_LinesIntact ==
    /\ IsPrefix(st_out, LinesOf(st_stream, ""))
    /\ (st_pc = "idle" /\ st_pipe = <<>> /\ LastByte = Newline)
        => st_out = LinesOf(st_stream, "")

\* the names of the tool calls of the ToolCalls chunks of a stream that come
\* before its Done, in the order received
RECURSIVE CallNamesBeforeDone(_)
CallNamesBeforeDone(items) ==
    IF items = <<>> \/ Head(items).type = "Done" THEN <<>>
    ELSE (IF Head(items).type = "ToolCalls"
          THEN [i \in 1..Len(Head(items).calls) |-> Head(items).calls[i].name]
          ELSE <<>>)
         \o CallNamesBeforeDone(Tail(items))

\* the names of the functionCall parts of a response, in order
RECURSIVE FunctionCallNames(_)
FunctionCallNames(parts) ==
    IF parts = <<>> THEN <<>>
    ELSE (IF Head(parts).kind = "functionCall" THEN <<Head(parts).name>> ELSE <<>>)
         \o FunctionCallNames(Tail(parts))

\* C35: generate_content returns one functionCall part for every tool call
\* of every ToolCalls chunk received before Done, in the order received,
\* also when the stream yields more than one ToolCalls chunk
C35_AllToolCallsReturned ==
    (gc_pc = "responded" /\ gc_res = "Ok") =>
        FunctionCallNames(gc_parts) = CallNamesBeforeDone(gc_src)

\* C36: a start_server that fails at connect, initialize or tools/list
\* returns the error and leaves no trace: the step that fails stores no
\* runtime, registers no alias, emits no event and spawns no health task,
\* and after it the id is absent from the map, so that a later start_server
\* with the same id is not rejected as AlreadyRunning
C36_FailedStartLeavesNoTrace ==
    /\ [][\A c \in Callers :
            (cpc[c] = "st_connect" /\ cpc'[c] = "idle") =>
                /\ cres'[c] = "Err"
                /\ UNCHANGED <<runtimes, nextRt, index, evQueued, hpc, rtTools, status>>]_vars
    /\ [](\A c \in MainCallers :
            (cpc[c] = "idle" /\ cres[c] = "Err") => \A s \in Servers : runtimes[s] = 0)

\* a start_server has failed and the next start_server of the same id has
\* passed the contains_key check
C36_Witness ==
    /\ cpc[1] = "st_connect"
    /\ cres[1] = "Err"
    /\ runtimes["s1"] = 0
    /\ index = {}
    /\ evQueued = <<>>

\* no start_server, refresh_tools or reconnect_server works on runtime r
Quiescent(r) ==
    /\ \A c \in Callers : crt[c] # r
    /\ hpc[r] = "tick"
    /\ ~reconnecting[r]

\* C37: for every runtime in the map, info.tool_count equals the length of
\* the cached tool list whenever no start_server, refresh_tools or
\* reconnect_server for that server is in progress
C37_ToolCountMatchesCache ==
    \A s \in Servers :
        (runtimes[s] # 0 /\ Quiescent(runtimes[s])) =>
            tool_count[runtimes[s]] = Cardinality(rtTools[runtimes[s]])

\* C38: whenever a runtime's status is Ready its last_error is None
C38_ReadyHasNoError ==
    \A s \in Servers :
        (runtimes[s] # 0 /\ status[runtimes[s]] = "Ready") =>
            last_error[runtimes[s]] = "None"

\* how many System messages a message list holds
SystemCount(messages) ==
    Cardinality({i \in 1..Len(messages) : messages[i].role = "System"})

\* the messages of the session in memory (none: the empty list)
SessionMessages == IF ch_sessions = <<>> THEN <<>> ELSE ch_sessions[1]

\* C39: after any sequence of chat requests on a session, the session's
\* message list contains exactly one System message and it is at index 0;
\* the relative order of all non-system messages is preserved and each
\* request appends its user message at the end
C39_OneSystemOrderKept ==
    /\ [](ch_sessions # <<>> =>
            /\ SystemCount(SessionMessages) = 1
            /\ SessionMessages[1].role = "System")
    /\ [][\A h \in ChatTasks :
            (ch_pc[h] = "update" /\ ch_pc'[h] = "save") =>
                /\ SessionMessages'[Len(SessionMessages')] = UserMessage(ch_req[h].message)
                /\ retain_non_system(SessionMessages') =
                       Append(retain_non_system(SessionMessages),
                              UserMessage(ch_req[h].message))]_vars

\* C40: every cap_tool_result call that stores an artifact returns a unique
\* artifact id, and retrieve_artifact(id) returns exactly the full result
\* passed to that call, after any sequence of cap_tool_result calls
C40_ArtifactsUniqueAndKept ==
    /\ \A i, j \in 1..Len(art_refs) : i # j => art_refs[i].ref.id # art_refs[j].ref.id
    /\ \A i \in 1..Len(art_refs) : retrieve_artifact(art_refs[i].ref.id) = <<art_refs[i].full>>

====
